---- MODULE Spec2Model ----
(***************************************************************************)
(* Model of the financial-health pipeline: the gold layer's ratio and      *)
(* point-accumulation scoring (create_gold.py) and the category-weighted   *)
(* analyzer (health_analyzer.py).                                          *)
(*                                                                         *)
(* Numbers.  The program computes with Python floats.  Every number of the *)
(* model is an exact rational [n |-> numerator, d |-> denominator] in      *)
(* lowest terms with d > 0; Python's None is the record with d = 0.  For   *)
(* the small inputs drawn here one float division followed by a comparison *)
(* with a decimal literal gives the same answer as the exact comparison,   *)
(* and round(x, k) is modelled as round-half-even on the exact value.      *)
(***************************************************************************)
EXTENDS Integers, Sequences, FiniteSets

\* op, args, ret, pc: the operation in progress, its input, what it returned and
\* its position; store: the tables and connections of the database; frame: the
\* locals of the function in progress.
VARIABLES op, args, ret, pc, store, frame

vars == <<op, args, ret, pc, store, frame>>

-----------------------------------------------------------------------------
(* Python values *)

NULL == [n |-> 0, d |-> 0]

ZeroDivisionError == [raised |-> "ZeroDivisionError"]

TypeError == [raised |-> "TypeError"]

IsRaised(x) == x = ZeroDivisionError \/ x = TypeError

IsNone(x) == x.d = 0

RECURSIVE GCD(_, _)
GCD(a, b) == IF b = 0 THEN a ELSE GCD(b, a % b)

AbsInt(k) == IF k < 0 THEN -k ELSE k

Rat(n, d) ==
    LET g == GCD(AbsInt(n), AbsInt(d))
        s == IF d < 0 THEN -1 ELSE 1
    IN  [n |-> s * (n \div g), d |-> s * (d \div g)]

Num(k) == [n |-> k, d |-> 1]

\* float('nan'), float('inf') and float('-inf'): not None, not equal to 0, truthy.
NaN == [n |-> 1, d |-> 1, nonfinite |-> "nan"]

Infinity == [n |-> 1, d |-> 1, nonfinite |-> "inf"]

NegInfinity == [n |-> -1, d |-> 1, nonfinite |-> "inf"]

IsNonFinite(x) == "nonfinite" \in DOMAIN x

IsNaN(x) == IsNonFinite(x) /\ x.nonfinite = "nan"

\* The sign of a non-NaN float: -1, 0 or 1.
Sign(x) == IF x.n < 0 THEN -1 ELSE IF x.n > 0 THEN 1 ELSE 0

Signed(k) == IF k < 0 THEN NegInfinity ELSE Infinity

\* Comparisons with NaN are False; an infinity is beyond every finite float.
Lt(a, b) ==
    IF IsNaN(a) \/ IsNaN(b) THEN FALSE
    ELSE IF IsNonFinite(a) \/ IsNonFinite(b)
         THEN a # b /\ (a = NegInfinity \/ b = Infinity)
    ELSE a.n * b.d < b.n * a.d

Le(a, b) ==
    IF IsNaN(a) \/ IsNaN(b) THEN FALSE
    ELSE IF IsNonFinite(a) \/ IsNonFinite(b)
         THEN a = NegInfinity \/ b = Infinity
    ELSE a.n * b.d <= b.n * a.d

Gt(a, b) == Lt(b, a)

Ge(a, b) == Le(b, a)

Add(a, b) ==
    IF IsNaN(a) \/ IsNaN(b) THEN NaN
    ELSE IF IsNonFinite(a) /\ IsNonFinite(b) THEN (IF a = b THEN a ELSE NaN)
    ELSE IF IsNonFinite(a) THEN a
    ELSE IF IsNonFinite(b) THEN b
    ELSE Rat(a.n * b.d + b.n * a.d, a.d * b.d)

Neg(a) == IF IsNonFinite(a) THEN [a EXCEPT !.n = -a.n] ELSE [n |-> -a.n, d |-> a.d]

Sub(a, b) == Add(a, Neg(b))

\* x * y of two floats: NaN with a NaN operand and for 0 * inf, an infinity of
\* the sign of the product with an infinite operand.
Mul(a, b) ==
    IF IsNaN(a) \/ IsNaN(b) THEN NaN
    ELSE IF IsNonFinite(a) \/ IsNonFinite(b)
         THEN (IF Sign(a) * Sign(b) = 0 THEN NaN ELSE Signed(Sign(a) * Sign(b)))
    ELSE Rat(a.n * b.n, a.d * b.d)

Abs(a) == [a EXCEPT !.n = AbsInt(a.n)]

\* x / y of two Python values: None operands and a zero divisor raise.
Div(a, b) ==
    IF IsNone(a) \/ IsNone(b) THEN TypeError
    ELSE IF b.n = 0 THEN ZeroDivisionError
    ELSE IF IsNaN(a) \/ IsNaN(b) THEN NaN
    ELSE IF IsNonFinite(a) /\ IsNonFinite(b) THEN NaN
    ELSE IF IsNonFinite(a) THEN Signed(Sign(a) * Sign(b))
    ELSE IF IsNonFinite(b) THEN Num(0)
    ELSE Rat(a.n * b.d, a.d * b.n)

\* bool(x): None and 0 are falsy.
Truthy(x) == ~IsNone(x) /\ x.n # 0

\* x or y
Or(x, y) == IF Truthy(x) THEN x ELSE y

\* round(x, digits) for digits in {1, 2}: the multiples of 10^-digits nearest to
\* x.  Away from a tie that is one value.  At an exact tie the float the program
\* rounds lies just below, on or just above the tie, by the rounding error of the
\* arithmetic before it, so either neighbour can be the result.
round_outcomes(x, digits) ==
    LET scale == IF digits = 2 THEN 100 ELSE 10
        num == x.n * scale
        q == num \div x.d
        r == num % x.d
    IN  IF IsNonFinite(x) THEN {x}
        ELSE IF 2 * r > x.d THEN {Rat(q + 1, scale)}
        ELSE IF 2 * r < x.d THEN {Rat(q, scale)}
        ELSE {Rat(q, scale), Rat(q + 1, scale)}

\* round(x, digits) where no tie can arise (see normalize).
round(x, digits) == CHOOSE y \in round_outcomes(x, digits) : TRUE

-----------------------------------------------------------------------------
(* create_gold.py: safe_divide *)

safe_divide_unguarded(numerator, denominator) ==
    IF IsNone(numerator) \/ IsNone(denominator) THEN NULL
    ELSE Div(numerator, denominator)

safe_divide_inverted(numerator, denominator) ==
    IF IsNone(numerator) \/ IsNone(denominator) \/ denominator = Num(0) THEN NULL
    ELSE IF numerator = Num(0) THEN NULL
    ELSE Div(denominator, numerator)

safe_divide(numerator, denominator) ==
    IF IsNone(numerator) \/ IsNone(denominator) \/ denominator.n = 0 THEN NULL
    ELSE Div(numerator, denominator)

-----------------------------------------------------------------------------
(* create_gold.py: get_health_status *)

get_health_status_strict(score) ==
    IF IsNone(score) THEN "Unknown"
    ELSE IF Gt(score, Num(80)) THEN "Excellent"
    ELSE IF Gt(score, Num(65)) THEN "Good"
    ELSE IF Gt(score, Num(50)) THEN "Fair"
    ELSE IF Gt(score, Num(35)) THEN "Concerning"
    ELSE "Poor"

get_health_status(score) ==
    IF IsNone(score) THEN "Unknown"
    ELSE IF Ge(score, Num(80)) THEN "Excellent"
    ELSE IF Ge(score, Num(65)) THEN "Good"
    ELSE IF Ge(score, Num(50)) THEN "Fair"
    ELSE IF Ge(score, Num(35)) THEN "Concerning"
    ELSE "Poor"

-----------------------------------------------------------------------------
(* create_gold.py: calculate_health_score *)

\* A decimal literal of the source, written in hundredths: Dec(150) is 1.5.
Dec(h) == Rat(h, 100)

\* ratios.get(key): None for a missing key.
Get(dict, key) == IF key \in DOMAIN dict THEN dict[key] ELSE NULL

\* Each block returns what it adds to (score, max_score).
NoPoints == [score |-> 0, max_score |-> 0]

current_ratio_points_generous(ratios) ==
    LET cr == Get(ratios, "current_ratio") IN
    IF IsNone(cr) THEN NoPoints
    ELSE [max_score |-> 10,
          score |-> IF Ge(cr, Dec(200)) THEN 12
                    ELSE IF Ge(cr, Dec(150)) THEN 8
                    ELSE IF Ge(cr, Dec(100)) THEN 5
                    ELSE IF Ge(cr, Dec(50)) THEN 2
                    ELSE 0]

current_ratio_points(ratios) ==
    LET cr == Get(ratios, "current_ratio") IN
    IF IsNone(cr) THEN NoPoints
    ELSE [max_score |-> 10,
          score |-> IF Ge(cr, Dec(200)) THEN 10
                    ELSE IF Ge(cr, Dec(150)) THEN 8
                    ELSE IF Ge(cr, Dec(100)) THEN 5
                    ELSE IF Ge(cr, Dec(50)) THEN 2
                    ELSE 0]

cash_ratio_points(ratios) ==
    LET cash_r == Get(ratios, "cash_ratio") IN
    IF IsNone(cash_r) THEN NoPoints
    ELSE [max_score |-> 10,
          score |-> IF Ge(cash_r, Dec(50)) THEN 10
                    ELSE IF Ge(cash_r, Dec(25)) THEN 7
                    ELSE IF Ge(cash_r, Dec(10)) THEN 4
                    ELSE 0]

net_margin_points(ratios) ==
    LET nm == Get(ratios, "net_margin") IN
    IF IsNone(nm) THEN NoPoints
    ELSE [max_score |-> 15,
          score |-> IF Ge(nm, Dec(20)) THEN 15
                    ELSE IF Ge(nm, Dec(10)) THEN 12
                    ELSE IF Ge(nm, Dec(5)) THEN 8
                    ELSE IF Ge(nm, Num(0)) THEN 4
                    ELSE 0]

roe_points(ratios) ==
    LET roe == Get(ratios, "roe") IN
    IF IsNone(roe) THEN NoPoints
    ELSE [max_score |-> 15,
          score |-> IF Ge(roe, Dec(20)) THEN 15
                    ELSE IF Ge(roe, Dec(15)) THEN 12
                    ELSE IF Ge(roe, Dec(10)) THEN 8
                    ELSE IF Ge(roe, Num(0)) THEN 4
                    ELSE 0]

debt_to_equity_points(ratios) ==
    LET de == Get(ratios, "debt_to_equity") IN
    IF IsNone(de) THEN NoPoints
    ELSE [max_score |-> 15,
          score |-> IF Le(de, Dec(50)) THEN 15
                    ELSE IF Le(de, Dec(100)) THEN 12
                    ELSE IF Le(de, Dec(200)) THEN 8
                    ELSE IF Le(de, Dec(300)) THEN 4
                    ELSE 0]

debt_to_assets_points(ratios) ==
    LET da == Get(ratios, "debt_to_assets") IN
    IF IsNone(da) THEN NoPoints
    ELSE [max_score |-> 10,
          score |-> IF Le(da, Dec(30)) THEN 10
                    ELSE IF Le(da, Dec(50)) THEN 7
                    ELSE IF Le(da, Dec(70)) THEN 4
                    ELSE 0]

operating_cash_flow_ratio_points(ratios) ==
    LET ocf == Get(ratios, "operating_cash_flow_ratio") IN
    IF IsNone(ocf) THEN NoPoints
    ELSE [max_score |-> 15,
          score |-> IF Ge(ocf, Dec(100)) THEN 15
                    ELSE IF Ge(ocf, Dec(50)) THEN 10
                    ELSE IF Ge(ocf, Dec(20)) THEN 5
                    ELSE 0]

free_cash_flow_margin_points(ratios) ==
    LET fcf == Get(ratios, "free_cash_flow_margin") IN
    IF IsNone(fcf) THEN NoPoints
    ELSE [max_score |-> 10,
          score |-> IF Ge(fcf, Dec(15)) THEN 10
                    ELSE IF Ge(fcf, Dec(10)) THEN 7
                    ELSE IF Ge(fcf, Dec(5)) THEN 4
                    ELSE IF Ge(fcf, Num(0)) THEN 2
                    ELSE 0]

\* The locals score and max_score when the function reaches its last statement.
health_points(ratios) ==
    LET blocks == <<current_ratio_points(ratios), cash_ratio_points(ratios),
                    net_margin_points(ratios), roe_points(ratios),
                    debt_to_equity_points(ratios), debt_to_assets_points(ratios),
                    operating_cash_flow_ratio_points(ratios),
                    free_cash_flow_margin_points(ratios)>>
        Sum[i \in 0..Len(blocks)] ==
            IF i = 0 THEN NoPoints
            ELSE [score |-> Sum[i - 1].score + blocks[i].score,
                  max_score |-> Sum[i - 1].max_score + blocks[i].max_score]
    IN  Sum[Len(blocks)]

\* Lines 123-126: normalize to the 0-100 scale.  100 * score / max_score is never
\* halfway between two hundredths: max_score is a multiple of 5 between 10 and 100,
\* and a tie needs 32 to divide it.
normalize(points) ==
    IF points.max_score > 0
    THEN round(Mul(Div(Num(points.score), Num(points.max_score)), Num(100)), 2)
    ELSE NULL

calculate_health_score(ratios) == normalize(health_points(ratios))

-----------------------------------------------------------------------------
(* Notes: the text of a note is modelled by the ratio it is about and its kind. *)

Note(metric, kind) == [metric |-> metric, kind |-> kind]

-----------------------------------------------------------------------------
(* create_gold.py: generate_analysis_notes and the body of create_gold_layer's loop *)

\* One `if ratios.get(key):` block with its if / elif: the note it appends, if any.
notes_block(value, first, first_note, second, second_note) ==
    IF ~Truthy(value) THEN <<>>
    ELSE IF first THEN <<first_note>>
    ELSE IF second THEN <<second_note>>
    ELSE <<>>

NoConcerns == <<Note("none", "no_concerns")>>

\* The mutation: each block is an elif of the block before it.
generate_analysis_notes_exclusive(ratios, score) ==
    LET cr == Get(ratios, "current_ratio")
        de == Get(ratios, "debt_to_equity")
        nm == Get(ratios, "net_margin")
        roe == Get(ratios, "roe")
        fcf == Get(ratios, "free_cash_flow_margin")
        notes ==
            notes_block(cr, Lt(cr, Num(1)), Note("current_ratio", "low"),
                        Gt(cr, Num(3)), Note("current_ratio", "high"))
            \o notes_block(de, Gt(de, Num(2)), Note("debt_to_equity", "high"),
                           Lt(de, Dec(30)), Note("debt_to_equity", "conservative"))
            \o notes_block(nm, Lt(nm, Num(0)), Note("net_margin", "not_profitable"),
                           Gt(nm, Dec(20)), Note("net_margin", "excellent"))
            \o notes_block(roe, Gt(roe, Dec(25)), Note("roe", "outstanding"),
                           Lt(roe, Dec(5)), Note("roe", "low"))
            \o notes_block(fcf, Lt(fcf, Num(0)), Note("free_cash_flow_margin", "negative"),
                           Gt(fcf, Dec(15)), Note("free_cash_flow_margin", "strong"))
    IN  IF notes # <<>> THEN SubSeq(notes, 1, 1) ELSE NoConcerns

\* The notes joined by "; " are modelled as their sequence.
generate_analysis_notes(ratios, score) ==
    LET cr == Get(ratios, "current_ratio")
        de == Get(ratios, "debt_to_equity")
        nm == Get(ratios, "net_margin")
        roe == Get(ratios, "roe")
        fcf == Get(ratios, "free_cash_flow_margin")
        notes ==
            notes_block(cr, Lt(cr, Num(1)), Note("current_ratio", "low"),
                        Gt(cr, Num(3)), Note("current_ratio", "high"))
            \o notes_block(de, Gt(de, Num(2)), Note("debt_to_equity", "high"),
                           Lt(de, Dec(30)), Note("debt_to_equity", "conservative"))
            \o notes_block(nm, Lt(nm, Num(0)), Note("net_margin", "not_profitable"),
                           Gt(nm, Dec(20)), Note("net_margin", "excellent"))
            \o notes_block(roe, Gt(roe, Dec(25)), Note("roe", "outstanding"),
                           Lt(roe, Dec(5)), Note("roe", "low"))
            \o notes_block(fcf, Lt(fcf, Num(0)), Note("free_cash_flow_margin", "negative"),
                           Gt(fcf, Dec(15)), Note("free_cash_flow_margin", "strong"))
    IN  IF notes # <<>> THEN notes ELSE NoConcerns

\* cursor.fetchone(): the first row of the result, or None; row[column] if row else None.
Field(rows, column) == IF rows # <<>> THEN rows[1][column] ELSE NULL

\* Line 260: safe_divide((current_assets or 0) - 0, current_liabilities)
quick_ratio_of(current_assets, current_liabilities) ==
    safe_divide(Sub(Or(current_assets, Num(0)), Num(0)), current_liabilities)

\* Lines 240-272: the ratios of one (ticker, year) from the three fetched rows.
calculate_ratios(income_row, balance_row, cashflow_row) ==
    LET revenue == Field(income_row, "revenue")
        gross_profit == Field(income_row, "gross_profit")
        operating_income == Field(income_row, "operating_income")
        net_income == Field(income_row, "net_income")
        total_assets == Field(balance_row, "total_assets")
        total_liabilities == Field(balance_row, "total_liabilities")
        total_equity == Field(balance_row, "total_equity")
        current_assets == Field(balance_row, "current_assets")
        current_liabilities == Field(balance_row, "current_liabilities")
        cash == Field(balance_row, "cash_and_equivalents")
        total_debt == Field(balance_row, "total_debt")
        operating_cf == Field(cashflow_row, "operating_cash_flow")
        free_cf == Field(cashflow_row, "free_cash_flow")
    IN  [current_ratio |-> safe_divide(current_assets, current_liabilities),
         quick_ratio |-> quick_ratio_of(current_assets, current_liabilities),
         cash_ratio |-> safe_divide(cash, current_liabilities),
         gross_margin |-> safe_divide(gross_profit, revenue),
         operating_margin |-> safe_divide(operating_income, revenue),
         net_margin |-> safe_divide(net_income, revenue),
         roe |-> safe_divide(net_income, total_equity),
         roa |-> safe_divide(net_income, total_assets),
         debt_to_equity |-> safe_divide(Or(total_debt, total_liabilities), total_equity),
         debt_to_assets |-> safe_divide(Or(total_debt, total_liabilities), total_assets),
         asset_turnover |-> safe_divide(revenue, total_assets),
         operating_cash_flow_ratio |-> safe_divide(operating_cf, current_liabilities),
         free_cash_flow_margin |-> safe_divide(free_cf, revenue)]

\* Line 280
revenue_growth_of(revenue, previous_revenue) ==
    IF Truthy(previous_revenue)
    THEN safe_divide(Sub(Or(revenue, Num(0)), Or(previous_revenue, Num(0))),
                     previous_revenue)
    ELSE NULL

\* Line 281
profit_growth_of(net_income, previous_net_income) ==
    IF Truthy(previous_net_income)
    THEN safe_divide(Sub(Or(net_income, Num(0)), Or(previous_net_income, Num(0))),
                     Abs(previous_net_income))
    ELSE NULL

\* Lines 215-323: one iteration of `for year in years`.  skipped is the `continue`
\* of line 238; otherwise the two rows inserted and the values carried to the
\* next iteration.
gold_year(income_row, balance_row, cashflow_row, previous_revenue, previous_net_income) ==
    IF income_row = <<>> /\ balance_row = <<>>
    THEN [skipped |-> TRUE,
          previous_revenue |-> previous_revenue,
          previous_net_income |-> previous_net_income]
    ELSE LET ratios == calculate_ratios(income_row, balance_row, cashflow_row)
             revenue == Field(income_row, "revenue")
             net_income == Field(income_row, "net_income")
             health_score == calculate_health_score(ratios)
             revenue_growth == revenue_growth_of(revenue, previous_revenue)
             profit_growth == profit_growth_of(net_income, previous_net_income)
         IN  [skipped |-> FALSE,
              gold_financial_health |->
                  [ratios |-> ratios,
                   health_score |-> health_score,
                   health_status |-> get_health_status(health_score),
                   analysis_notes |-> generate_analysis_notes(ratios, health_score)],
              gold_kpi_dashboard |->
                  [revenue |-> revenue, revenue_growth |-> revenue_growth,
                   net_income |-> net_income, profit_growth |-> profit_growth,
                   total_assets |-> Field(balance_row, "total_assets"),
                   total_debt |-> Or(Field(balance_row, "total_debt"),
                                     Field(balance_row, "total_liabilities")),
                   free_cash_flow |-> Field(cashflow_row, "free_cash_flow"),
                   current_ratio |-> ratios.current_ratio,
                   debt_to_equity |-> ratios.debt_to_equity,
                   net_margin |-> ratios.net_margin,
                   roe |-> ratios.roe,
                   health_score |-> health_score,
                   health_status |-> get_health_status(health_score)],
              previous_revenue |-> revenue,
              previous_net_income |-> net_income]

-----------------------------------------------------------------------------
(* health_analyzer.py: FinancialHealthAnalyzer *)

\* THRESHOLDS, in hundredths.
THRESHOLDS ==
    [current_ratio |-> [excellent |-> 200, good |-> 150, fair |-> 100, poor |-> 50],
     quick_ratio |-> [excellent |-> 150, good |-> 100, fair |-> 70, poor |-> 30],
     cash_ratio |-> [excellent |-> 50, good |-> 30, fair |-> 15, poor |-> 5],
     gross_margin |-> [excellent |-> 50, good |-> 35, fair |-> 20, poor |-> 10],
     operating_margin |-> [excellent |-> 25, good |-> 15, fair |-> 8, poor |-> 0],
     net_margin |-> [excellent |-> 20, good |-> 10, fair |-> 5, poor |-> 0],
     roe |-> [excellent |-> 20, good |-> 15, fair |-> 10, poor |-> 5],
     roa |-> [excellent |-> 15, good |-> 10, fair |-> 5, poor |-> 2],
     debt_to_equity |-> [excellent |-> 50, good |-> 100, fair |-> 200, poor |-> 300],
     debt_to_assets |-> [excellent |-> 30, good |-> 50, fair |-> 60, poor |-> 70],
     operating_cash_flow_ratio |-> [excellent |-> 100, good |-> 60, fair |-> 30, poor |-> 10],
     free_cash_flow_margin |-> [excellent |-> 15, good |-> 10, fair |-> 5, poor |-> 0]]

\* CATEGORY_WEIGHTS, in hundredths, in the dictionary's iteration order.
Categories == <<"liquidity", "profitability", "leverage", "cash_flow", "growth">>

CATEGORY_WEIGHTS ==
    [liquidity |-> 15, profitability |-> 30, leverage |-> 20, cash_flow |-> 20,
     growth |-> 15]

\* The mutation: the reverse flag is ignored.
score_metric_unreversed(metric_name, value, reverse) ==
    IF IsNone(value) THEN NULL
    ELSE IF metric_name \notin DOMAIN THRESHOLDS THEN NULL
    ELSE LET thresholds == THRESHOLDS[metric_name] IN
         IF Ge(value, Dec(thresholds.excellent)) THEN Num(100)
         ELSE IF Ge(value, Dec(thresholds.good)) THEN Num(75)
         ELSE IF Ge(value, Dec(thresholds.fair)) THEN Num(50)
         ELSE IF Ge(value, Dec(thresholds.poor)) THEN Num(25)
         ELSE Num(10)

score_metric_exclusive(metric_name, value, reverse) ==
    IF IsNone(value) THEN NULL
    ELSE IF metric_name \notin DOMAIN THRESHOLDS THEN NULL
    ELSE LET thresholds == THRESHOLDS[metric_name] IN
         IF reverse
         THEN IF Lt(value, Dec(thresholds.excellent)) THEN Num(100)
              ELSE IF Lt(value, Dec(thresholds.good)) THEN Num(75)
              ELSE IF Lt(value, Dec(thresholds.fair)) THEN Num(50)
              ELSE IF Lt(value, Dec(thresholds.poor)) THEN Num(25)
              ELSE Num(10)
         ELSE IF Gt(value, Dec(thresholds.excellent)) THEN Num(100)
              ELSE IF Gt(value, Dec(thresholds.good)) THEN Num(75)
              ELSE IF Gt(value, Dec(thresholds.fair)) THEN Num(50)
              ELSE IF Gt(value, Dec(thresholds.poor)) THEN Num(25)
              ELSE Num(10)

score_metric(metric_name, value, reverse) ==
    IF IsNone(value) THEN NULL
    ELSE IF metric_name \notin DOMAIN THRESHOLDS THEN NULL
    ELSE LET thresholds == THRESHOLDS[metric_name] IN
         IF reverse
         THEN IF Le(value, Dec(thresholds.excellent)) THEN Num(100)
              ELSE IF Le(value, Dec(thresholds.good)) THEN Num(75)
              ELSE IF Le(value, Dec(thresholds.fair)) THEN Num(50)
              ELSE IF Le(value, Dec(thresholds.poor)) THEN Num(25)
              ELSE Num(10)
         ELSE IF Ge(value, Dec(thresholds.excellent)) THEN Num(100)
              ELSE IF Ge(value, Dec(thresholds.good)) THEN Num(75)
              ELSE IF Ge(value, Dec(thresholds.fair)) THEN Num(50)
              ELSE IF Ge(value, Dec(thresholds.poor)) THEN Num(25)
              ELSE Num(10)

\* sum(scores) / len(scores) if scores else default
RECURSIVE SumSeq(_)
SumSeq(q) == IF q = <<>> THEN Num(0) ELSE Add(q[1], SumSeq(Tail(q)))

Mean(scores, default) ==
    IF scores # <<>> THEN Div(SumSeq(scores), Num(Len(scores))) ELSE default

\* One `if x is not None:` block of an analyze_* method: what it appends to
\* (scores, notes).
Block(value, score, note) ==
    IF IsNone(value) THEN [scores |-> <<>>, notes |-> <<>>]
    ELSE [scores |-> <<score>>, notes |-> note]

RECURSIVE Concat(_)
Concat(blocks) ==
    IF blocks = <<>> THEN [scores |-> <<>>, notes |-> <<>>]
    ELSE LET rest == Concat(Tail(blocks)) IN
         [scores |-> blocks[1].scores \o rest.scores,
          notes |-> blocks[1].notes \o rest.notes]

analyze_liquidity(metrics) ==
    LET cr == Get(metrics, "current_ratio")
        cash_r == Get(metrics, "cash_ratio")
    IN  Concat(<<
          Block(cr, score_metric("current_ratio", cr, FALSE),
                IF Lt(cr, Num(1)) THEN <<Note("current_ratio", "low")>>
                ELSE IF Gt(cr, Num(3)) THEN <<Note("current_ratio", "high")>>
                ELSE <<Note("current_ratio", "healthy")>>),
          Block(cash_r, score_metric("cash_ratio", cash_r, FALSE),
                IF Lt(cash_r, Dec(10)) THEN <<Note("cash_ratio", "low")>> ELSE <<>>)>>)

profitability_block(metrics, metric) ==
    LET value == Get(metrics, metric)
        score == score_metric(metric, value, FALSE)
    IN  Block(value, score,
              IF Lt(value, Num(0)) THEN <<Note(metric, "negative")>>
              ELSE IF Ge(score, Num(75)) THEN <<Note(metric, "excellent")>>
              ELSE IF Le(score, Num(25)) THEN <<Note(metric, "below")>>
              ELSE <<>>)

analyze_profitability(metrics) ==
    Concat(<<profitability_block(metrics, "gross_margin"),
             profitability_block(metrics, "operating_margin"),
             profitability_block(metrics, "net_margin"),
             profitability_block(metrics, "roe"),
             profitability_block(metrics, "roa")>>)

analyze_leverage(metrics) ==
    LET de == Get(metrics, "debt_to_equity")
        da == Get(metrics, "debt_to_assets")
    IN  Concat(<<
          Block(de, score_metric("debt_to_equity", de, TRUE),
                IF Gt(de, Num(2)) THEN <<Note("debt_to_equity", "high")>>
                ELSE IF Lt(de, Dec(50)) THEN <<Note("debt_to_equity", "conservative")>>
                ELSE <<Note("debt_to_equity", "acceptable")>>),
          Block(da, score_metric("debt_to_assets", da, TRUE),
                IF Gt(da, Dec(60)) THEN <<Note("debt_to_assets", "high")>> ELSE <<>>)>>)

analyze_cash_flow(metrics) ==
    LET ocf == Get(metrics, "operating_cash_flow_ratio")
        fcf == Get(metrics, "free_cash_flow_margin")
    IN  Concat(<<
          Block(ocf, score_metric("operating_cash_flow_ratio", ocf, FALSE),
                IF Lt(ocf, Dec(30)) THEN <<Note("operating_cash_flow_ratio", "low")>>
                ELSE IF Ge(ocf, Num(1))
                     THEN <<Note("operating_cash_flow_ratio", "excellent")>>
                ELSE <<>>),
          Block(fcf, score_metric("free_cash_flow_margin", fcf, FALSE),
                IF Lt(fcf, Num(0)) THEN <<Note("free_cash_flow_margin", "negative")>>
                ELSE IF Ge(fcf, Dec(15)) THEN <<Note("free_cash_flow_margin", "strong")>>
                ELSE <<>>)>>)

analyze_growth_inclusive(metrics) ==
    LET rev_growth == Get(metrics, "revenue_growth")
        profit_growth == Get(metrics, "profit_growth")
    IN  Concat(<<
          IF IsNone(rev_growth) THEN Block(NULL, NULL, <<>>)
          ELSE IF Ge(rev_growth, Dec(20))
               THEN Block(rev_growth, Num(100), <<Note("revenue_growth", "excellent")>>)
          ELSE IF Ge(rev_growth, Dec(10))
               THEN Block(rev_growth, Num(75), <<Note("revenue_growth", "good")>>)
          ELSE IF Ge(rev_growth, Num(0))
               THEN Block(rev_growth, Num(50), <<Note("revenue_growth", "moderate")>>)
          ELSE Block(rev_growth, Num(25), <<Note("revenue_growth", "decline")>>),
          IF IsNone(profit_growth) THEN Block(NULL, NULL, <<>>)
          ELSE IF Ge(profit_growth, Dec(15))
               THEN Block(profit_growth, Num(100), <<Note("profit_growth", "growth")>>)
          ELSE IF Ge(profit_growth, Num(0)) THEN Block(profit_growth, Num(75), <<>>)
          ELSE IF Ge(profit_growth, Dec(-10)) THEN Block(profit_growth, Num(50), <<>>)
          ELSE Block(profit_growth, Num(25), <<Note("profit_growth", "decline")>>)>>)

analyze_growth(metrics) ==
    LET rev_growth == Get(metrics, "revenue_growth")
        profit_growth == Get(metrics, "profit_growth")
    IN  Concat(<<
          IF IsNone(rev_growth) THEN Block(NULL, NULL, <<>>)
          ELSE IF Gt(rev_growth, Dec(20))
               THEN Block(rev_growth, Num(100), <<Note("revenue_growth", "excellent")>>)
          ELSE IF Gt(rev_growth, Dec(10))
               THEN Block(rev_growth, Num(75), <<Note("revenue_growth", "good")>>)
          ELSE IF Gt(rev_growth, Num(0))
               THEN Block(rev_growth, Num(50), <<Note("revenue_growth", "moderate")>>)
          ELSE Block(rev_growth, Num(25), <<Note("revenue_growth", "decline")>>),
          IF IsNone(profit_growth) THEN Block(NULL, NULL, <<>>)
          ELSE IF Gt(profit_growth, Dec(15))
               THEN Block(profit_growth, Num(100), <<Note("profit_growth", "growth")>>)
          ELSE IF Gt(profit_growth, Num(0)) THEN Block(profit_growth, Num(75), <<>>)
          ELSE IF Gt(profit_growth, Dec(-10)) THEN Block(profit_growth, Num(50), <<>>)
          ELSE Block(profit_growth, Num(25), <<Note("profit_growth", "decline")>>)>>)

\* self.scores[category] as each analyze_* method leaves it.
category_score(category, metrics) ==
    CASE category = "liquidity" -> Mean(analyze_liquidity(metrics).scores, Num(0))
      [] category = "profitability" -> Mean(analyze_profitability(metrics).scores, Num(0))
      [] category = "leverage" -> Mean(analyze_leverage(metrics).scores, Num(0))
      [] category = "cash_flow" -> Mean(analyze_cash_flow(metrics).scores, Num(0))
      [] category = "growth" -> Mean(analyze_growth(metrics).scores, Num(50))

\* The loop of calculate_overall_score over CATEGORY_WEIGHTS: (total_score, total_weight).
RECURSIVE weighted_totals(_, _)
weighted_totals(scores, i) ==
    IF i = 0 THEN [total_score |-> Num(0), total_weight |-> Num(0)]
    ELSE LET before == weighted_totals(scores, i - 1)
             category == Categories[i]
             weight == Dec(CATEGORY_WEIGHTS[category])
         IN  IF category \in DOMAIN scores
             THEN [total_score |-> Add(before.total_score, Mul(scores[category], weight)),
                   total_weight |-> Add(before.total_weight, weight)]
             ELSE before

\* The mutation: breakpoints twenty points apart.
status_of_even(overall_score) ==
    IF Ge(overall_score, Num(80)) THEN "EXCELENTE"
    ELSE IF Ge(overall_score, Num(60)) THEN "BOM"
    ELSE IF Ge(overall_score, Num(40)) THEN "RAZOAVEL"
    ELSE IF Ge(overall_score, Num(20)) THEN "PREOCUPANTE"
    ELSE "CRITICO"

status_of(overall_score) ==
    IF Ge(overall_score, Num(80)) THEN "EXCELENTE"
    ELSE IF Ge(overall_score, Num(65)) THEN "BOM"
    ELSE IF Ge(overall_score, Num(50)) THEN "RAZOAVEL"
    ELSE IF Ge(overall_score, Num(35)) THEN "PREOCUPANTE"
    ELSE "CRITICO"

overall_of_unnormalized(scores) ==
    LET t == weighted_totals(scores, Len(Categories)) IN
    IF Gt(t.total_weight, Num(0)) THEN round_outcomes(t.total_score, 1) ELSE {Num(0)}

\* Lines 306-309: the values self.overall_score can take.
overall_of(scores) ==
    LET t == weighted_totals(scores, Len(Categories)) IN
    IF Gt(t.total_weight, Num(0))
    THEN round_outcomes(Div(t.total_score, t.total_weight), 1)
    ELSE {Num(0)}

\* calculate_overall_score: the analyzer after the call, for each value of
\* self.overall_score (it returns the two fields it sets).
calculate_overall_score(self) ==
    {[self EXCEPT !.overall_score = overall_score,
                  !.health_status = status_of(overall_score)] :
        overall_score \in overall_of(self.scores)}

\* __init__: the analyzer's fields (the connection aside).
NewAnalyzer ==
    [metrics |-> <<>>, scores |-> <<>>, overall_score |-> NULL,
     health_status |-> "None", analysis_report |-> <<>>]

RatioColumns ==
    {"current_ratio", "quick_ratio", "cash_ratio", "gross_margin", "operating_margin",
     "net_margin", "roe", "roa", "debt_to_equity", "debt_to_assets",
     "operating_cash_flow_ratio", "free_cash_flow_margin"}

\* Lines 117-120: the growth of one column, None when the key is not set.
load_growth(current, previous) ==
    IF Truthy(current) /\ Truthy(previous) /\ previous # Num(0)
    THEN Div(Sub(current, previous), Abs(previous))
    ELSE NULL

\* load_data: self.metrics from the latest gold_financial_health row (health_rows:
\* no row or one) and the two latest gold_kpi_dashboard rows (kpi_rows: up to two,
\* latest first).
load_data(health_rows, kpi_rows) ==
    LET revenue_growth ==
            IF Len(kpi_rows) >= 2
            THEN load_growth(kpi_rows[1].revenue, kpi_rows[2].revenue) ELSE NULL
        profit_growth ==
            IF Len(kpi_rows) >= 2
            THEN load_growth(kpi_rows[1].net_income, kpi_rows[2].net_income) ELSE NULL
        keys == (IF health_rows # <<>> THEN RatioColumns \cup {"fiscal_year"} ELSE {})
                \cup (IF ~IsNone(revenue_growth) THEN {"revenue_growth"} ELSE {})
                \cup (IF ~IsNone(profit_growth) THEN {"profit_growth"} ELSE {})
    IN  [k \in keys |->
            CASE k = "revenue_growth" -> revenue_growth
              [] k = "profit_growth" -> profit_growth
              [] OTHER -> health_rows[1][k]]

\* self.scores after the five analyze_* calls of run_full_analysis.
scores_after_analysis(metrics) ==
    [category \in {"liquidity", "profitability", "leverage", "cash_flow", "growth"}
        |-> category_score(category, metrics)]

Unavailable == "Dados nao disponiveis para esta empresa"

\* Lines 330-345: all_notes, extended by the notes of each analyze_* method.
all_notes_of(metrics) ==
    analyze_liquidity(metrics).notes
    \o analyze_profitability(metrics).notes
    \o analyze_leverage(metrics).notes
    \o analyze_cash_flow(metrics).notes
    \o analyze_growth(metrics).notes

\* run_full_analysis on a new analyzer: the analyzer afterwards and the pair returned.
run_full_analysis(health_rows, kpi_rows) ==
    LET metrics == load_data(health_rows, kpi_rows) IN
    IF DOMAIN metrics = {}
    THEN {[self |-> NewAnalyzer, score |-> NULL, status |-> Unavailable]}
    ELSE LET all_notes == all_notes_of(metrics)
             analyzed == [NewAnalyzer EXCEPT !.metrics = metrics,
                                             !.scores = scores_after_analysis(metrics)]
         IN  {[self |-> [scored EXCEPT !.analysis_report = all_notes],
               score |-> scored.overall_score,
               status |-> scored.health_status] :
                 scored \in calculate_overall_score(analyzed)}

\* The mutation: healthy from the second tier up.
is_healthy_from_good(self) == ~IsNone(self.overall_score) /\ Ge(self.overall_score, Num(65))

\* is_healthy
is_healthy(self) == ~IsNone(self.overall_score) /\ Ge(self.overall_score, Num(50))

\* config.py lines 28-39: the companies, in the order the dict is iterated.
TECH_COMPANIES ==
    <<[ticker |-> "AAPL", company |-> "Apple Inc."],
      [ticker |-> "MSFT", company |-> "Microsoft Corporation"],
      [ticker |-> "GOOGL", company |-> "Alphabet Inc."],
      [ticker |-> "AMZN", company |-> "Amazon.com Inc."],
      [ticker |-> "NVDA", company |-> "NVIDIA Corporation"],
      [ticker |-> "META", company |-> "Meta Platforms Inc."],
      [ticker |-> "TSLA", company |-> "Tesla Inc."],
      [ticker |-> "AVGO", company |-> "Broadcom Inc."],
      [ticker |-> "ASML", company |-> "ASML Holding N.V."],
      [ticker |-> "NFLX", company |-> "Netflix Inc."]>>

\* list.sort(key=lambda x: x['score'], reverse=True): a stable sort, so results of
\* equal score keep the order they were appended in.
insert_by_score(sorted, r) ==
    LET before == {i \in 1..Len(sorted) : Ge(sorted[i].score, r.score)}
        n == Cardinality(before)
    IN  SubSeq(sorted, 1, n) \o <<r>> \o SubSeq(sorted, n + 1, Len(sorted))

RECURSIVE sort_by_score(_)
sort_by_score(results) ==
    IF results = <<>> THEN <<>>
    ELSE insert_by_score(sort_by_score(SubSeq(results, 1, Len(results) - 1)),
                         results[Len(results)])

\* Lines 423-441: the loop over the companies; analysed[i] is what
\* run_full_analysis returned for the i-th company.
RECURSIVE collect_results(_, _)
collect_results(companies, analysed) ==
    IF companies = <<>> THEN <<>>
    ELSE LET n == Len(companies)
             rest == collect_results(SubSeq(companies, 1, n - 1),
                                     SubSeq(analysed, 1, n - 1))
         IN  IF ~IsNone(analysed[n].score)
             THEN Append(rest, [ticker |-> companies[n].ticker,
                                company |-> companies[n].company,
                                score |-> analysed[n].score,
                                status |-> analysed[n].status,
                                healthy |-> is_healthy(analysed[n].self)])
             ELSE rest

\* analyze_all_companies over the database db (ticker -> the rows load_data
\* fetches): the results in the order the summary table prints them, and the
\* tickers reported as not analysable.
analyze_all_companies(companies, db) ==
    LET tickers == {companies[i].ticker : i \in 1..Len(companies)}
        outcomes == [t \in tickers |->
                        run_full_analysis(db[t].health_rows, db[t].kpi_rows)]
    IN  {[ranking |-> sort_by_score(collect_results(companies, analysed)),
          unavailable |-> [i \in {j \in 1..Len(companies) : IsNone(analysed[j].score)}
                            |-> analysed[i].status]] :
            analysed \in {a \in [1..Len(companies) -> UNION {outcomes[t] : t \in tickers}] :
                            \A i \in 1..Len(companies) : a[i] \in outcomes[companies[i].ticker]}}

-----------------------------------------------------------------------------
(* transform_silver.py: the normalization of the raw rows of one year *)

\* Lines 14-67: the mappings from raw labels to canonical metrics, as pairs.
INCOME_METRICS ==
    <<<<"Revenue", "revenue">>,
      <<"Total Revenue", "revenue">>,
      <<"Net Sales", "revenue">>,
      <<"Cost of Revenue", "cost_of_revenue">>,
      <<"Cost of Goods Sold", "cost_of_revenue">>,
      <<"Gross Profit", "gross_profit">>,
      <<"Operating Expenses", "operating_expenses">>,
      <<"Total Operating Expenses", "operating_expenses">>,
      <<"Operating Income", "operating_income">>,
      <<"Net Income", "net_income">>,
      <<"Net Income Common", "net_income">>,
      <<"EBITDA", "ebitda">>,
      <<"EPS (Basic)", "eps_basic">>,
      <<"EPS Basic", "eps_basic">>,
      <<"EPS (Diluted)", "eps_diluted">>,
      <<"EPS Diluted", "eps_diluted">>>>

BALANCE_METRICS ==
    <<<<"Total Assets", "total_assets">>,
      <<"Total Liabilities", "total_liabilities">>,
      <<"Total Equity", "total_equity">>,
      <<"Shareholders' Equity", "total_equity">>,
      <<"Stockholders Equity", "total_equity">>,
      <<"Current Assets", "current_assets">>,
      <<"Total Current Assets", "current_assets">>,
      <<"Current Liabilities", "current_liabilities">>,
      <<"Total Current Liabilities", "current_liabilities">>,
      <<"Cash & Cash Equivalents", "cash_and_equivalents">>,
      <<"Cash and Cash Equivalents", "cash_and_equivalents">>,
      <<"Cash & Equivalents", "cash_and_equivalents">>,
      <<"Total Debt", "total_debt">>,
      <<"Long-Term Debt", "total_debt">>,
      <<"Retained Earnings", "retained_earnings">>>>

CASHFLOW_METRICS ==
    <<<<"Operating Cash Flow", "operating_cash_flow">>,
      <<"Cash from Operations", "operating_cash_flow">>,
      <<"Net Cash from Operating Activities", "operating_cash_flow">>,
      <<"Investing Cash Flow", "investing_cash_flow">>,
      <<"Cash from Investing", "investing_cash_flow">>,
      <<"Net Cash from Investing Activities", "investing_cash_flow">>,
      <<"Financing Cash Flow", "financing_cash_flow">>,
      <<"Cash from Financing", "financing_cash_flow">>,
      <<"Net Cash from Financing Activities", "financing_cash_flow">>,
      <<"Free Cash Flow", "free_cash_flow">>,
      <<"Capital Expenditures", "capital_expenditures">>,
      <<"Capital Expenditure", "capital_expenditures">>,
      <<"Dividends Paid", "dividends_paid">>,
      <<"Net Change in Cash", "net_change_in_cash">>,
      <<"Change in Cash", "net_change_in_cash">>>>

Labels(METRICS) == {METRICS[i][1] : i \in 1..Len(METRICS)}

Canonical(METRICS, label) ==
    METRICS[CHOOSE i \in 1..Len(METRICS) : METRICS[i][1] = label][2]

\* A fiscal_year of a bronze table is a text, the sequence of its characters.
DecimalDigits == <<"0", "1", "2", "3", "4", "5", "6", "7", "8", "9">>

IsDigit(character) == \E i \in 1..10 : DecimalDigits[i] = character

DigitValue(character) == (CHOOSE i \in 1..10 : DecimalDigits[i] = character) - 1

\* int(year) of a fiscal_year matching '^[0-9]{4}$'.
int(year) ==
    DigitValue(year[1]) * 1000 + DigitValue(year[2]) * 100
    + DigitValue(year[3]) * 10 + DigitValue(year[4])

\* The mutation: the first row of a canonical metric is kept.
RECURSIVE normalize_rows_first_wins(_, _, _)
normalize_rows_first_wins(METRICS, data, rows) ==
    IF rows = <<>> THEN data
    ELSE LET earlier == normalize_rows_first_wins(METRICS, data,
                                                  SubSeq(rows, 1, Len(rows) - 1))
             row == rows[Len(rows)]
         IN  IF row.metric_name \in Labels(METRICS) /\ ~IsNone(row.metric_value)
             THEN LET key == Canonical(METRICS, row.metric_name) IN
                  [k \in DOMAIN earlier \cup {key} |->
                      IF k \in DOMAIN earlier THEN earlier[k] ELSE row.metric_value]
             ELSE earlier

\* Lines 117-119: the rows in the order fetchall() returns them; a later row of
\* the same canonical metric overwrites an earlier one.
RECURSIVE normalize_rows(_, _, _)
normalize_rows(METRICS, data, rows) ==
    IF rows = <<>> THEN data
    ELSE LET earlier == normalize_rows(METRICS, data, SubSeq(rows, 1, Len(rows) - 1))
             row == rows[Len(rows)]
         IN  IF row.metric_name \in Labels(METRICS) /\ ~IsNone(row.metric_value)
             THEN LET key == Canonical(METRICS, row.metric_name) IN
                  [k \in DOMAIN earlier \cup {key} |->
                      IF k = key THEN row.metric_value ELSE earlier[k]]
             ELSE earlier

\* Lines 111-126 (and 129-144, 147-162): the rows inserted into a silver table
\* for one statement of one year.
silver_rows(METRICS, ticker, year, rows) ==
    LET data == normalize_rows(METRICS,
                               [k \in {"ticker", "fiscal_year"} |->
                                   IF k = "ticker" THEN ticker ELSE int(year)],
                               rows)
    IN  IF Cardinality(DOMAIN data) > 2 THEN <<data>> ELSE <<>>

\* Lines 109-162: one iteration of the loop over the years of a ticker.
transform_year(ticker, year, income_rows, balance_rows, cashflow_rows) ==
    [silver_income_statement |-> silver_rows(INCOME_METRICS, ticker, year, income_rows),
     silver_balance_sheet |-> silver_rows(BALANCE_METRICS, ticker, year, balance_rows),
     silver_cash_flow |-> silver_rows(CASHFLOW_METRICS, ticker, year, cashflow_rows)]

-----------------------------------------------------------------------------
(* extract_bronze.py: the rows of one column of a statement *)

\* pd.notna(value): None and NaN are missing; an infinity is not.
notna(value) == ~IsNone(value) /\ ~IsNaN(value)

\* Lines 40-47 (and 62-68, 81-86): the bronze rows inserted for one column (one
\* year) of a statement, from its cells in index order.
RECURSIVE extract_rows(_)
extract_rows(cells) ==
    IF cells = <<>> THEN <<>>
    ELSE LET earlier == extract_rows(SubSeq(cells, 1, Len(cells) - 1))
             cell == cells[Len(cells)]
         IN  IF notna(cell.value)
             THEN Append(earlier, [metric_name |-> cell.metric_name,
                                   metric_value |-> cell.value])
             ELSE earlier

\* create_gold.py lines 216-235: SELECT of the columns of a silver table for one
\* (ticker, year); a column the silver row was inserted without is NULL.
select_silver(silver_table, columns) ==
    IF silver_table = <<>> THEN <<>>
    ELSE <<[c \in columns |->
               IF c \in DOMAIN silver_table[1] THEN silver_table[1][c] ELSE NULL]>>

\* The columns the three queries of create_gold_layer select.
IncomeColumns == {"revenue", "gross_profit", "operating_income", "net_income"}

BalanceColumns ==
    {"total_assets", "total_liabilities", "total_equity", "current_assets",
     "current_liabilities", "cash_and_equivalents", "total_debt"}

CashflowColumns == {"operating_cash_flow", "free_cash_flow"}

-----------------------------------------------------------------------------
(* extract_bronze.py: run_bronze_extraction, one transaction per ticker *)

BronzeTables == {"bronze_income_statement", "bronze_balance_sheet", "bronze_cash_flow"}

NoRows == [t \in BronzeTables |-> <<>>]

\* Lines 38-47: the rows of one statement, column by column (year by year).
RECURSIVE statement_rows(_, _)
statement_rows(ticker, statement) ==
    IF statement = <<>> THEN <<>>
    ELSE LET n == Len(statement)
             rows == extract_rows(statement[n].cells)
         IN  statement_rows(ticker, SubSeq(statement, 1, n - 1))
             \o [i \in 1..Len(rows) |->
                    [ticker |-> ticker, fiscal_year |-> statement[n].year,
                     metric_name |-> rows[i].metric_name,
                     metric_value |-> rows[i].metric_value]]

\* The mutation: conn.rollback() keeps what the transaction inserted.
rollback_keeping(committed, pending) ==
    [t \in BronzeTables |-> committed[t] \o pending[t]]

\* Line 100, conn.rollback(): the tables are as they were at the last commit.
rollback(committed, pending) == committed

\* Line 92, conn.commit(): the rows of the transaction are in the tables.
commit(committed, pending) ==
    [t \in BronzeTables |-> committed[t] \o pending[t]]

\* DataFrame.empty: the statement has no column (no year) or no row (no metric).
\* A statement is the sequence of its columns, each with one cell per row.
empty(statement) == statement = <<>> \/ statement[1].cells = <<>>

\* Lines 36, 57, 75 with 54, 72, 90: all_dataframes has a key for every statement
\* that is not empty.
DataframeKey ==
    [bronze_income_statement |-> "income", bronze_balance_sheet |-> "balance-sheet",
     bronze_cash_flow |-> "cash-flow"]

all_dataframes(provided) ==
    {DataframeKey[t] : t \in {u \in BronzeTables : ~empty(provided[u])}}

\* The statement whose rows a position of extract_to_bronze inserts, and the
\* position after it.
StatementAt ==
    [income |-> "bronze_income_statement", balance |-> "bronze_balance_sheet",
     cashflow |-> "bronze_cash_flow"]

NextPosition == [fetch |-> "income", income |-> "balance", balance |-> "cashflow",
                 cashflow |-> "commit"]

-----------------------------------------------------------------------------
(* create_gold.py: create_gold_layer over the silver tables *)

\* A table is the sequence of its rows, in insertion order.
Matching(table, ticker, year) ==
    SelectSeq(table, LAMBDA r : r.ticker = ticker /\ r.fiscal_year = year)

\* Lines 205-209: SELECT DISTINCT fiscal_year ... WHERE ticker = %s ORDER BY
\* fiscal_year DESC.
RECURSIVE descending(_)
descending(years) ==
    IF years = {} THEN <<>>
    ELSE LET latest == CHOOSE y \in years : \A z \in years : z <= y
         IN  <<latest>> \o descending(years \ {latest})

years_of(table, ticker) ==
    descending({table[i].fiscal_year : i \in {j \in 1..Len(table) : table[j].ticker = ticker}})

\* Lines 216-235: cursor.fetchone() of a SELECT of columns WHERE ticker = %s AND
\* fiscal_year = %s: the columns of the first matching row, or no row.
fetchone(table, ticker, year, columns) ==
    select_silver(Matching(table, ticker, year), columns)

\* The mutation: the values of the last year of the ticker before are kept.
carried_at_ticker_start_kept(carried) == carried

\* Lines 211-212: previous_revenue = None, previous_net_income = None.
carried_at_ticker_start(carried) == NULL

\* The mutation: the tables keep their rows.
truncate_keeping(table) == table

\* Lines 196-199: TRUNCATE TABLE.
truncate(table) == <<>>

\* health_analyzer.py lines 74-87 and 106-113: SELECT ... WHERE ticker = %s ORDER BY
\* fiscal_year DESC LIMIT limit, over a table with one row per (ticker, year).
latest_rows(table, ticker, limit) ==
    LET years == years_of(table, ticker)
        n == IF Len(years) < limit THEN Len(years) ELSE limit
    IN  [i \in 1..n |-> Matching(table, ticker, years[i])[1]]

\* The rows load_data fetches for a ticker from the two gold tables.
fetched_health_rows(table, ticker) ==
    LET rows == latest_rows(table, ticker, 1)
    IN  [i \in 1..Len(rows) |->
            [k \in RatioColumns \cup {"fiscal_year"} |->
                IF k = "fiscal_year" THEN Num(rows[i].fiscal_year)
                ELSE rows[i].values.ratios[k]]]

fetched_kpi_rows(table, ticker) ==
    LET rows == latest_rows(table, ticker, 2)
    IN  [i \in 1..Len(rows) |->
            [revenue |-> rows[i].values.revenue, net_income |-> rows[i].values.net_income]]

\* Lines 283-320: the two rows inserted for a (ticker, year); the ranks are unset.
health_record(company, year, values) ==
    [ticker |-> company.ticker, company_name |-> company.company, fiscal_year |-> year,
     values |-> values]

kpi_record(company, year, values) ==
    [ticker |-> company.ticker, company_name |-> company.company, fiscal_year |-> year,
     values |-> values, revenue_rank |-> NULL, profit_rank |-> NULL,
     health_rank |-> NULL]

\* The order of a numeric column in PostgreSQL: NaN is equal to NaN and above
\* every other value.
sorts_above(a, b) ==
    IF IsNaN(a) THEN ~IsNaN(b) ELSE IF IsNaN(b) THEN FALSE ELSE Gt(a, b)

\* RANK() OVER (PARTITION BY fiscal_year ORDER BY column DESC NULLS LAST): one more
\* than the number of rows of the year that come before the row.
rank(table, row, column) ==
    LET before == {i \in 1..Len(table) :
                      /\ table[i].fiscal_year = row.fiscal_year
                      /\ ~IsNone(table[i].values[column])
                      /\ \/ IsNone(row.values[column])
                         \/ sorts_above(table[i].values[column], row.values[column])}
    IN  Num(1 + Cardinality(before))

\* Lines 330-344: the UPDATE that sets the three ranks of every row.
update_ranks(table) ==
    [i \in 1..Len(table) |->
        [table[i] EXCEPT !.revenue_rank = rank(table, table[i], "revenue"),
                         !.profit_rank = rank(table, table[i], "net_income"),
                         !.health_rank = rank(table, table[i], "health_score")]]

-----------------------------------------------------------------------------
(* health_analyzer.py: the connections of the analyzers *)

\* Line 62: self.conn = get_connection(); the open connections are a set, a
\* connection is named by the number of connections opened before it.
get_connection(connections) ==
    [open |-> connections.open \cup {connections.opened},
     opened |-> connections.opened + 1]

\* Lines 412-414: self.conn.close()
close(connections, conn) == [connections EXCEPT !.open = @ \ {conn}]

-----------------------------------------------------------------------------
(* transform_silver.py: transform_to_silver over the tables *)

\* Lines 80-83: TRUNCATE TABLE ... CASCADE of the four silver tables.  The gold
\* tables reference silver_companies (database.py lines 160, 194), so the cascade
\* empties them too.
truncate_cascade(tables) ==
    [tables EXCEPT !.silver_income_statement = <<>>,
                   !.silver_balance_sheet = <<>>,
                   !.silver_cash_flow = <<>>,
                   !.silver_companies = <<>>,
                   !.gold_financial_health = <<>>,
                   !.gold_kpi_dashboard = <<>>]

\* Lines 88-93: one row of silver_companies per company of TECH_COMPANIES.
company_rows(companies) ==
    [i \in 1..Len(companies) |->
        [ticker |-> companies[i].ticker, company_name |-> companies[i].company,
         sector |-> "Technology"]]

\* fiscal_year ~ '^[0-9]{4}$'
matches_year(fiscal_year) ==
    Len(fiscal_year) = 4 /\ \A i \in 1..4 : IsDigit(fiscal_year[i])

\* LIMIT 5 of line 105.
YearsLimit == 5

\* Lines 101-107: SELECT DISTINCT fiscal_year FROM bronze_income_statement WHERE
\* ticker = %s AND fiscal_year ~ '^[0-9]{4}$' ORDER BY fiscal_year DESC LIMIT 5.
\* Texts of four digits are ordered as the numbers they write.
bronze_years(table, ticker) ==
    LET texts == {table[i].fiscal_year :
                     i \in {j \in 1..Len(table) :
                               /\ table[j].ticker = ticker
                               /\ matches_year(table[j].fiscal_year)}}
        ordered == descending({int(text) : text \in texts})
        n == IF Len(ordered) < YearsLimit THEN Len(ordered) ELSE YearsLimit
    IN  [i \in 1..n |-> CHOOSE text \in texts : int(text) = ordered[i]]

\* Lines 112-115 (and 130-133, 148-151): SELECT metric_name, metric_value FROM a
\* bronze table WHERE ticker = %s AND fiscal_year = %s, in the order of the table.
bronze_rows(table, ticker, year) ==
    LET rows == SelectSeq(table, LAMBDA r : r.ticker = ticker /\ r.fiscal_year = year)
    IN  [i \in 1..Len(rows) |->
            [metric_name |-> rows[i].metric_name, metric_value |-> rows[i].metric_value]]

\* The query has no ORDER BY: fetchall() returns the rows in some order.
Orderings(n) ==
    {order \in [1..n -> 1..n] : \A i, j \in 1..n : order[i] = order[j] => i = j}

Fetched(rows) ==
    {[i \in 1..Len(rows) |-> rows[order[i]]] : order \in Orderings(Len(rows))}

-----------------------------------------------------------------------------
(* Bounds and input sets *)

MaxVal == 10

MaxScoreTenths == 1005

Values == {NULL} \cup {Num(k) : k \in -MaxVal..MaxVal}

ScoreInputs == {NULL} \cup {Rat(k, 10) : k \in -50..MaxScoreTenths}

SafeDivideCalls ==
    {[numerator |-> a, denominator |-> b] : a \in Values, b \in Values}

GetHealthStatusCalls == {[score |-> s] : s \in ScoreInputs}

\* Candidate values of each tracked ratio, in hundredths: one in each band and
\* on each threshold.
TrackedRatios ==
    {"current_ratio", "cash_ratio", "net_margin", "roe", "debt_to_equity",
     "debt_to_assets", "operating_cash_flow_ratio", "free_cash_flow_margin"}

RatioCandidates ==
    [current_ratio |-> <<200, 30, 120, 150, 50, 100>>,
     cash_ratio |-> <<50, 5, 25, 10, 30, 9>>,
     net_margin |-> <<20, -10, 5, 10, 0, 19>>,
     roe |-> <<25, -5, 10, 15, 0, 20>>,
     debt_to_equity |-> <<50, 350, 150, 100, 200, 300>>,
     debt_to_assets |-> <<30, 80, 60, 50, 70, 31>>,
     operating_cash_flow_ratio |-> <<130, 10, 50, 100, 20, 99>>,
     free_cash_flow_margin |-> <<25, -5, 5, 15, 10, 0>>,
     gross_margin |-> <<40, 5, 60, 20, 10, 0>>,
     operating_margin |-> <<10, -5, 30, 20, 5, 0>>,
     roa |-> <<12, 1, 20, 10, 5, 0>>]

Levels(k, levels) ==
    {NULL} \cup {Dec(RatioCandidates[k][i]) :
                    i \in 1..(IF levels < Len(RatioCandidates[k]) THEN levels
                              ELSE Len(RatioCandidates[k]))}

\* The ratios with at most k of the keys observed, each at any of its candidates
\* (every list of candidates has the same length).
Observing(blank, keys, k) ==
    {[c \in DOMAIN blank |->
        IF c \in observed THEN Dec(RatioCandidates[c][choice[c]]) ELSE blank[c]] :
        <<observed, choice>> \in
            UNION {{<<observed, choice>> :
                        choice \in [observed -> 1..Len(RatioCandidates.current_ratio)]} :
                   observed \in {o \in SUBSET keys : Cardinality(o) <= k}}}

\* calculate_health_score is called with every ratio None or one of its first
\* ScoreLevels candidates, and with at most MaxObserved ratios at any candidate.
ScoreLevels == 2

MaxObserved == 2

CalculateHealthScoreCalls ==
    {[ratios |-> r] : r \in
        [current_ratio : Levels("current_ratio", ScoreLevels),
         cash_ratio : Levels("cash_ratio", ScoreLevels),
         net_margin : Levels("net_margin", ScoreLevels),
         roe : Levels("roe", ScoreLevels),
         debt_to_equity : Levels("debt_to_equity", ScoreLevels),
         debt_to_assets : Levels("debt_to_assets", ScoreLevels),
         operating_cash_flow_ratio : Levels("operating_cash_flow_ratio", ScoreLevels),
         free_cash_flow_margin : Levels("free_cash_flow_margin", ScoreLevels)]
        \cup Observing([k \in TrackedRatios |-> NULL], TrackedRatios, MaxObserved)}

-----------------------------------------------------------------------------
(* Input sets of the analyzer and of the gold layer *)

\* calculate_health_score with at most MaxObserved ratios, each at any candidate.
FewRatiosCalls ==
    {[ratios |-> r] :
        r \in Observing([k \in TrackedRatios |-> NULL], TrackedRatios, MaxObserved)}

\* The non-None values score_metric is called with, in hundredths.
MaxRatio == 320

MetricValues == {Dec(h) : h \in -20..MaxRatio}

MetricNames == RatioColumns \cup {"asset_turnover"}

ScoreMetricCalls ==
    [metric_name : MetricNames, value : {NULL} \cup MetricValues, reverse : BOOLEAN]

\* Growth rates, in hundredths.
MaxGrowth == 25

GrowthValues == {NULL} \cup {Dec(h) : h \in -15..MaxGrowth}

\* self.metrics.get(key) is None for a growth key load_data did not set.
AnalyzeGrowthCalls ==
    {[metrics |-> [revenue_growth |-> r, profit_growth |-> p]] :
        r \in GrowthValues, p \in GrowthValues}

\* self.scores: any subset of the categories, each with a category score.
CategoryScores == {Num(0), Num(10), Rat(175, 2), Num(75), Rat(325, 4), Num(100)}

ScoreMaps ==
    UNION {[present -> CategoryScores] : present \in SUBSET {"liquidity", "profitability", "leverage", "cash_flow", "growth"}}

CalculateOverallScoreCalls ==
    {[self |-> [NewAnalyzer EXCEPT !.scores = m]] : m \in ScoreMaps}

\* The latest gold_financial_health row of a ticker: each scored ratio is None or
\* its first candidate, or at most MaxObserved ratios are at any candidate.
ScoredColumns == RatioColumns \ {"quick_ratio"}

EmptyHealthRow ==
    [k \in RatioColumns \cup {"fiscal_year"} |->
        IF k = "fiscal_year" THEN Num(2024) ELSE NULL]

HealthRows ==
    {[k \in RatioColumns \cup {"fiscal_year"} |->
        IF k \in present THEN Dec(RatioCandidates[k][1]) ELSE EmptyHealthRow[k]] :
        present \in SUBSET ScoredColumns}
    \cup Observing(EmptyHealthRow, ScoredColumns, MaxObserved)

KpiRow(revenue, net_income) == [revenue |-> revenue, net_income |-> net_income]

\* The two latest gold_kpi_dashboard rows of a ticker, latest first.
FewKpiRows ==
    {<<>>, <<KpiRow(Num(100), Num(20))>>,
     <<KpiRow(Num(130), Num(20)), KpiRow(Num(100), Num(25))>>}

RunFullAnalysisCalls ==
    {[health_rows |-> h, kpi_rows |-> k] :
        h \in {<<>>} \cup {<<row>> : row \in HealthRows}, k \in FewKpiRows}

\* load_data on every pair of kpi rows over Values, with and without a health row.
SomeHealthRow ==
    [k \in RatioColumns \cup {"fiscal_year"} |->
        IF k = "fiscal_year" THEN Num(2024) ELSE Dec(150)]

KpiPairs ==
    {<<KpiRow(c, Num(20)), KpiRow(q, Num(10))>> : c \in Values, q \in Values}
    \cup {<<KpiRow(Num(100), c), KpiRow(Num(80), q)>> : c \in Values, q \in Values}

LoadDataCalls ==
    {[health_rows |-> h, kpi_rows |-> k] :
        h \in {<<>>, <<SomeHealthRow>>}, k \in {<<>>, <<KpiRow(Num(5), Num(1))>>} \cup KpiPairs}

\* One iteration of create_gold_layer's loop: the silver rows of the year and the
\* values carried from the previous iteration.  The rows are the base rows with at
\* most MaxDeviations columns replaced by None, 0 or a negative value.
MaxDeviations == 2

BaseIncome ==
    [revenue |-> Num(100), gross_profit |-> Num(60), operating_income |-> Num(30),
     net_income |-> Num(20)]

BaseBalance ==
    [total_assets |-> Num(200), total_liabilities |-> Num(120), total_equity |-> Num(80),
     current_assets |-> Num(150), current_liabilities |-> Num(100),
     cash_and_equivalents |-> Num(50), total_debt |-> Num(40)]

BaseCashflow == [operating_cash_flow |-> Num(130), free_cash_flow |-> Num(25)]

BaseRow == [income |-> BaseIncome, balance |-> BaseBalance, cashflow |-> BaseCashflow]

Columns ==
    {<<"income", c>> : c \in DOMAIN BaseIncome}
    \cup {<<"balance", c>> : c \in DOMAIN BaseBalance}
    \cup {<<"cashflow", c>> : c \in DOMAIN BaseCashflow}

Deviations == {NULL, Num(0), Num(-50)}

RECURSIVE Deviated(_)
Deviated(k) ==
    IF k = 0 THEN {BaseRow}
    ELSE LET fewer == Deviated(k - 1) IN
         fewer \cup {[row EXCEPT ![col[1]][col[2]] = v] :
                        row \in fewer, col \in Columns, v \in Deviations}

\* The year's rows as the three queries return them: the balance sheet or the cash
\* flow row of a year may be missing; the years come from the income table.  The
\* last family holds the years whose rows have few columns set.
SilverYears ==
    {[income_row |-> <<row.income>>, balance_row |-> <<row.balance>>,
      cashflow_row |-> <<row.cashflow>>] : row \in Deviated(MaxDeviations)}
    \cup {[income_row |-> <<BaseIncome>>, balance_row |-> b, cashflow_row |-> c] :
            b \in {<<>>, <<BaseBalance>>}, c \in {<<>>, <<BaseCashflow>>}}
    \cup {[income_row |-> <<[BaseIncome EXCEPT !.revenue = v]>>, balance_row |-> <<>>,
           cashflow_row |-> c] : v \in Deviations, c \in {<<>>, <<BaseCashflow>>}}
    \cup {[income_row |-> <<i>>, balance_row |-> b, cashflow_row |-> <<>>] :
            i \in {[BaseIncome EXCEPT !.net_income = NULL],
                   [c \in DOMAIN BaseIncome |-> IF c = "revenue" THEN Num(100) ELSE NULL]},
            b \in {<<>>,
                   <<[c \in DOMAIN BaseBalance |->
                        IF c = "current_liabilities" THEN Num(100) ELSE NULL]>>,
                   <<[c \in DOMAIN BaseBalance |->
                        IF c = "total_assets" THEN Num(200) ELSE NULL]>>}}

\* The year after the first of a ticker: revenue and net income of the year, and
\* the values carried from the iteration before.
GoldGrowthCalls ==
    {[income_row |-> <<[BaseIncome EXCEPT !.revenue = c, !.net_income = c]>>,
      balance_row |-> <<BaseBalance>>, cashflow_row |-> <<BaseCashflow>>,
      previous_revenue |-> q, previous_net_income |-> q] :
        c \in Values, q \in Values}

\* The silver rows of a year in which only revenue, net_income, current_assets,
\* current_liabilities, total_equity, total_assets, total_debt and the two cash
\* flows were normalized; every other column is NULL.
SparseYear ==
    [income_row |-> <<[BaseIncome EXCEPT !.gross_profit = NULL,
                                         !.operating_income = NULL]>>,
     balance_row |-> <<[BaseBalance EXCEPT !.total_liabilities = NULL,
                                           !.cash_and_equivalents = NULL]>>,
     cashflow_row |-> <<BaseCashflow>>]

\* A year with a loss and a debt of 2.5 times the equity.
LeveragedLossYear ==
    [income_row |-> <<[BaseIncome EXCEPT !.net_income = Num(-10)]>>,
     balance_row |-> <<[BaseBalance EXCEPT !.total_debt = Num(200)]>>,
     cashflow_row |-> <<BaseCashflow>>]

GoldYearCalls ==
    {[income_row |-> y.income_row, balance_row |-> y.balance_row,
      cashflow_row |-> y.cashflow_row,
      previous_revenue |-> NULL, previous_net_income |-> NULL] :
        y \in SilverYears \cup {SparseYear, LeveragedLossYear}}
    \cup GoldGrowthCalls

\* analyze_all_companies on the first MaxCompanies companies of TECH_COMPANIES,
\* each with no gold rows or with one of three latest gold_financial_health rows.
MaxCompanies == 4

CompanyData ==
    {[health_rows |-> <<>>, kpi_rows |-> <<>>],
     [health_rows |-> <<[EmptyHealthRow EXCEPT !.net_margin = Dec(20)]>>, kpi_rows |-> <<>>],
     [health_rows |-> <<[EmptyHealthRow EXCEPT !.current_ratio = Dec(200)]>>, kpi_rows |-> <<>>],
     [health_rows |-> <<[EmptyHealthRow EXCEPT !.current_ratio = Dec(200),
                                               !.net_margin = Dec(20)]>>,
      kpi_rows |-> <<>>]}

AnalyzeAllCompaniesCalls ==
    {[companies |-> SubSeq(TECH_COMPANIES, 1, MaxCompanies), db |-> db] :
        db \in [{TECH_COMPANIES[i].ticker : i \in 1..MaxCompanies} -> CompanyData]}

\* The raw rows of one statement of a year: at most MaxRawRows rows, which the
\* query (it has no ORDER BY) returns in any order.
MaxRawRows == 3

RawValues == {NULL, Num(90), Num(100)}

RawRows(labels) == [metric_name : labels, metric_value : RawValues]

RowSets(labels) == {rows \in SUBSET RawRows(labels) : Cardinality(rows) <= MaxRawRows}

IncomeLabels == {"Total Revenue", "Net Sales", "Net Income", "Tax Provision"}

BalanceLabels == {"Total Debt", "Long-Term Debt", "Total Assets"}

CashflowLabels == {"Operating Cash Flow", "Cash from Operations", "Free Cash Flow"}

\* The years of a ticker are those of its bronze income rows (lines 102-107): an
\* iteration of the loop has at least one of them.
UnmappedRow == [metric_name |-> "Tax Provision", metric_value |-> Num(100)]

\* str(col.year) of a column of a statement (extract_bronze.py line 39).
YearText(year) ==
    <<DecimalDigits[((year \div 1000) % 10) + 1], DecimalDigits[((year \div 100) % 10) + 1],
      DecimalDigits[((year \div 10) % 10) + 1], DecimalDigits[(year % 10) + 1]>>

RECURSIVE SeqOf(_)
SeqOf(set) ==
    IF set = {} THEN <<>>
    ELSE LET x == CHOOSE y \in set : TRUE IN <<x>> \o SeqOf(set \ {x})

BronzeRow(ticker, fiscal_year, metric_name, metric_value) ==
    [ticker |-> ticker, fiscal_year |-> fiscal_year, metric_name |-> metric_name,
     metric_value |-> metric_value]

BronzeTable(ticker, fiscal_year, rows) ==
    LET q == SeqOf(rows)
    IN  [i \in 1..Len(q) |->
            BronzeRow(ticker, fiscal_year, q[i].metric_name, q[i].metric_value)]

\* The bronze tables with the rows of one year of AAPL.
OneYearBronze ==
    {[bronze_income_statement |-> BronzeTable("AAPL", YearText(2024), i),
      bronze_balance_sheet |-> BronzeTable("AAPL", YearText(2024), b),
      bronze_cash_flow |-> BronzeTable("AAPL", YearText(2024), c)] :
        <<i, b, c>> \in
            ((RowSets(IncomeLabels) \ {{}}) \X {{}} \X {{}})
            \cup ({{UnmappedRow}} \X RowSets(BalanceLabels) \X {{}})
            \cup ({{UnmappedRow}} \X {{}} \X RowSets(CashflowLabels))
            \cup {<<{r}, {r2}, {r3}>> : r \in RawRows({"Net Income"}),
                                        r2 \in RawRows({"Total Assets"}),
                                        r3 \in RawRows({"Free Cash Flow"})}}

\* The bronze tables with six years of AAPL, and with fiscal years that are not
\* four digits, or are four digits that write a number below 1000.
SeveralYearsBronze ==
    {[bronze_income_statement |->
          [i \in 1..6 |-> BronzeRow("AAPL", YearText(2018 + i), "Total Revenue",
                                    Num(118 + i))],
      bronze_balance_sheet |->
          <<BronzeRow("AAPL", YearText(2019), "Total Assets", Num(200))>>,
      bronze_cash_flow |-> <<>>],
     [bronze_income_statement |->
          <<BronzeRow("AAPL", YearText(2024), "Total Revenue", Num(100)),
            BronzeRow("AAPL", <<"T", "T", "M">>, "Total Revenue", Num(1)),
            BronzeRow("AAPL", <<"2", "0", "2", "4", "5">>, "Total Revenue", Num(2)),
            BronzeRow("AAPL", <<" ", "2", "0", "2", "3">>, "Total Revenue", Num(3)),
            BronzeRow("AAPL", <<"0", "9", "9", "9">>, "Total Revenue", Num(4)),
            BronzeRow("AAPL", YearText(2024), "Net Income", Num(20)),
            BronzeRow("MSFT", YearText(2023), "Total Revenue", Num(90))>>,
      bronze_balance_sheet |->
          <<BronzeRow("MSFT", YearText(2023), "Total Assets", Num(200))>>,
      bronze_cash_flow |->
          <<BronzeRow("AAPL", <<"T", "T", "M">>, "Free Cash Flow", Num(25))>>]}

MaxSilverCompanies == 2

TransformToSilverCalls == {[companies |-> SubSeq(TECH_COMPANIES, 1, MaxSilverCompanies)]}

\* The cells of one year of the three yfinance statements.
CellValues == {NULL, NaN, Infinity, NegInfinity, Num(0), Num(100)}

Cell(label, value) == [metric_name |-> label, value |-> value]

\* run_bronze_extraction over the first MaxExtracted companies; the provider
\* answers each ticker with one of a few sets of statements.
MaxExtracted == 2

Col(year, cells) == [year |-> year, cells |-> cells]

ProviderAnswers ==
    {[bronze_income_statement |-> <<>>, bronze_balance_sheet |-> <<>>,
      bronze_cash_flow |-> <<>>],
     [bronze_income_statement |-> <<Col(YearText(2024), <<Cell("Total Revenue", Num(100))>>)>>,
      bronze_balance_sheet |-> <<>>, bronze_cash_flow |-> <<>>],
     [bronze_income_statement |-> <<Col(YearText(2024), <<Cell("Total Revenue", Num(100))>>)>>,
      bronze_balance_sheet |-> <<Col(YearText(2024), <<>>)>>,
      bronze_cash_flow |-> <<Col(YearText(2024), <<Cell("Free Cash Flow", NaN)>>)>>],
     [bronze_income_statement |->
          <<Col(YearText(2024), <<Cell("Total Revenue", Num(100)), Cell("Net Income", Num(20))>>),
            Col(YearText(2023), <<Cell("Total Revenue", Num(90)), Cell("Net Income", NaN)>>)>>,
      bronze_balance_sheet |-> <<Col(YearText(2024), <<Cell("Total Assets", Num(200))>>)>>,
      bronze_cash_flow |-> <<Col(YearText(2024), <<Cell("Free Cash Flow", Num(25))>>)>>]}

\* Rows a previous run left in the bronze tables.
StaleRows ==
    {NoRows,
     [NoRows EXCEPT !.bronze_income_statement =
         <<[ticker |-> "AAPL", fiscal_year |-> YearText(2022), metric_name |-> "Total Revenue",
            metric_value |-> Num(80)]>>]}

RunBronzeExtractionCalls ==
    {[companies |-> SubSeq(TECH_COMPANIES, 1, MaxExtracted), provider |-> p] :
        p \in [{TECH_COMPANIES[i].ticker : i \in 1..MaxExtracted} -> ProviderAnswers]}

\* create_gold_layer over the first MaxGoldCompanies companies, each with one of a
\* few histories in the silver tables, run at most MaxRuns times.  A year of a
\* history: revenue and net income, and whether the balance sheet and cash flow
\* rows of the year exist.
MaxGoldCompanies == 2

MaxRuns == 2

Year(fiscal_year, revenue, net_income, complete) ==
    [fiscal_year |-> fiscal_year, revenue |-> revenue, net_income |-> net_income,
     complete |-> complete]

Histories ==
    {<<>>,
     <<Year(2024, Num(100), Num(20), TRUE)>>,
     <<Year(2023, Num(80), Num(10), TRUE), Year(2024, Num(100), Num(20), TRUE)>>,
     <<Year(2022, Num(50), Num(-10), TRUE), Year(2023, Num(80), Num(0), FALSE),
       Year(2024, Num(100), Num(20), TRUE)>>,
     <<Year(2022, Num(50), Num(5), TRUE), Year(2024, Num(100), Num(20), TRUE)>>,
     <<Year(2023, NULL, Num(10), TRUE), Year(2024, Num(100), Num(20), FALSE)>>}

TableRow(ticker, fiscal_year, columns) ==
    [k \in {"ticker", "fiscal_year"} \cup DOMAIN columns |->
        IF k = "ticker" THEN ticker
        ELSE IF k = "fiscal_year" THEN fiscal_year
        ELSE columns[k]]

\* The silver tables transform_to_silver leaves for the histories: at most one
\* row of a table per (ticker, fiscal_year).
RECURSIVE silver_of(_, _)
silver_of(companies, histories) ==
    IF companies = <<>>
    THEN [silver_income_statement |-> <<>>, silver_balance_sheet |-> <<>>,
          silver_cash_flow |-> <<>>]
    ELSE LET n == Len(companies)
             ticker == companies[n].ticker
             earlier == silver_of(SubSeq(companies, 1, n - 1), histories)
             history == histories[ticker]
             complete == SelectSeq(history, LAMBDA y : y.complete)
         IN  [silver_income_statement |->
                  earlier.silver_income_statement
                  \o [i \in 1..Len(history) |->
                         TableRow(ticker, history[i].fiscal_year,
                                  [BaseIncome EXCEPT !.revenue = history[i].revenue,
                                                     !.net_income = history[i].net_income])],
              silver_balance_sheet |->
                  earlier.silver_balance_sheet
                  \o [i \in 1..Len(complete) |->
                         TableRow(ticker, complete[i].fiscal_year, BaseBalance)],
              silver_cash_flow |->
                  earlier.silver_cash_flow
                  \o [i \in 1..Len(complete) |->
                         TableRow(ticker, complete[i].fiscal_year, BaseCashflow)]]

\* Rows an earlier computation left in the gold tables.
StaleYear == gold_year(<<[c \in IncomeColumns |-> NULL]>>, <<>>, <<>>, NULL, NULL)

StaleGold ==
    {[gold_financial_health |-> <<>>, gold_kpi_dashboard |-> <<>>],
     [gold_financial_health |->
          <<health_record(TECH_COMPANIES[1], 2021, StaleYear.gold_financial_health)>>,
      gold_kpi_dashboard |->
          <<kpi_record(TECH_COMPANIES[1], 2021, StaleYear.gold_kpi_dashboard)>>]}

CreateGoldLayerCalls ==
    {[companies |-> SubSeq(TECH_COMPANIES, 1, MaxGoldCompanies), histories |-> h] :
        h \in [{TECH_COMPANIES[i].ticker : i \in 1..MaxGoldCompanies} -> Histories]}

\* The ratios notes are written about: at most MaxNoted of them are present,
\* each at a value below, between or above the thresholds of the notes.
MaxNoted == 2

NoteValues == {Dec(-10), Dec(150), Num(4)}

GoldNoteRatios ==
    {"current_ratio", "debt_to_equity", "net_margin", "roe", "free_cash_flow_margin"}

AnalyzerNoteMetrics == (RatioColumns \ {"quick_ratio"}) \cup {"revenue_growth", "profit_growth"}

Noted(keys) ==
    UNION {{[k \in keys |-> IF k \in present THEN choice[k] ELSE NULL] :
               choice \in [present -> NoteValues]} :
           present \in {o \in SUBSET keys : Cardinality(o) <= MaxNoted}}

GenerateAnalysisNotesCalls == {[ratios |-> r] : r \in Noted(GoldNoteRatios)}

AllNotesCalls == {[metrics |-> m] : m \in Noted(AnalyzerNoteMetrics)}

\* analyze_single_company for a ticker with each of the data of a company.
AnalyzeSingleCompanyCalls ==
    {[companies |-> <<TECH_COMPANIES[i]>>, db |-> db] :
        <<i, db>> \in UNION {{i} \X [{TECH_COMPANIES[i].ticker} -> CompanyData] :
                                i \in 1..MaxCompanies}}

\* The silver and gold tables before a run: empty, or with the rows an earlier
\* run left for a year of AAPL and for a company no longer in TECH_COMPANIES.
FormerCompany == [ticker |-> "OLD", company |-> "Old Corp."]

EarlierSilver(columns) ==
    <<TableRow("AAPL", 2021, columns), TableRow("OLD", 2024, columns)>>

EarlierTables ==
    {[silver_companies |-> <<>>, silver_income_statement |-> <<>>,
      silver_balance_sheet |-> <<>>, silver_cash_flow |-> <<>>,
      gold_financial_health |-> <<>>, gold_kpi_dashboard |-> <<>>],
     [silver_companies |-> company_rows(<<TECH_COMPANIES[1], FormerCompany>>),
      silver_income_statement |-> EarlierSilver(BaseIncome),
      silver_balance_sheet |-> EarlierSilver(BaseBalance),
      silver_cash_flow |-> EarlierSilver(BaseCashflow),
      gold_financial_health |->
          <<health_record(TECH_COMPANIES[1], 2021, StaleYear.gold_financial_health),
            health_record(FormerCompany, 2024, StaleYear.gold_financial_health)>>,
      gold_kpi_dashboard |->
          <<kpi_record(TECH_COMPANIES[1], 2021, StaleYear.gold_kpi_dashboard),
            kpi_record(FormerCompany, 2024, StaleYear.gold_kpi_dashboard)>>]}

WithBronze(tables, bronze) ==
    [k \in DOMAIN tables \cup {"committed"} |->
        IF k = "committed" THEN bronze ELSE tables[k]]

\* transform_to_silver starts from the rows of one year over the tables of an
\* earlier run, or from the rows of several years over either.
TransformToSilverStores ==
    {WithBronze(tables, bronze) :
        <<tables, bronze>> \in
            ((EarlierTables \ {CHOOSE t \in EarlierTables : t.silver_companies = <<>>})
                 \X OneYearBronze)
            \cup (EarlierTables \X SeveralYearsBronze)}

\* run_full_pipeline for one company.  The provider answers with one year whose
\* cells are any of CellValues, with two years, or with six.
PipelineCompanies == SubSeq(TECH_COMPANIES, 1, 1)

Statements(income, balance, cashflow) ==
    [bronze_income_statement |-> income, bronze_balance_sheet |-> balance,
     bronze_cash_flow |-> cashflow]

OneYearAnswers ==
    {Statements(
        <<Col(YearText(2024),
              <<Cell("Total Revenue", revenue), Cell("Net Income", net_income)>>)>>,
        <<Col(YearText(2024), <<Cell("Stockholders Equity", total_equity)>>)>>,
        <<Col(YearText(2024), <<Cell("Free Cash Flow", free_cash_flow)>>)>>) :
        revenue \in CellValues, net_income \in CellValues,
        total_equity \in CellValues, free_cash_flow \in CellValues}

TwoYearsAnswers ==
    {Statements(
        <<Col(YearText(2024),
              <<Cell("Total Revenue", latest), Cell("Net Income", Num(20))>>),
          Col(YearText(2023),
              <<Cell("Total Revenue", earlier), Cell("Net Income", net_income)>>)>>,
        <<Col(YearText(2024), <<Cell("Stockholders Equity", Num(100))>>),
          Col(YearText(2023), <<Cell("Stockholders Equity", Num(100))>>)>>,
        <<Col(YearText(2024), <<Cell("Free Cash Flow", Num(100))>>),
          Col(YearText(2023), <<Cell("Free Cash Flow", Num(100))>>)>>) :
        latest \in {Num(100), Infinity}, earlier \in {Num(80), Num(100), Infinity},
        net_income \in {Num(10), NaN}}

SixYearsAnswer ==
    Statements([i \in 1..6 |-> Col(YearText(2025 - i),
                                   <<Cell("Total Revenue", Num(125 - i))>>)],
               <<>>, <<>>)

PipelineAnswers ==
    OneYearAnswers \cup TwoYearsAnswers \cup {SixYearsAnswer} \cup ProviderAnswers

PipelineCalls ==
    {[companies |-> PipelineCompanies, provider |-> p] :
        p \in [{PipelineCompanies[i].ticker : i \in 1..Len(PipelineCompanies)}
                  -> PipelineAnswers]}

-----------------------------------------------------------------------------
(* The calls: the initial state holds an operation and its input, one action *)
(* applies it.                                                              *)

\* A call of a function that reads no table and keeps no locals between steps.
InitCall(name, calls) ==
    /\ pc = "call"
    /\ ret = NULL
    /\ op = name
    /\ args \in calls
    /\ store = <<>>
    /\ frame = <<>>

SafeDivide ==
    /\ pc = "call" /\ op = "safe_divide"
    /\ ret' = safe_divide(args.numerator, args.denominator)
    /\ pc' = "done"
    /\ UNCHANGED <<op, args, store, frame>>

GetHealthStatus ==
    /\ pc = "call" /\ op = "get_health_status"
    /\ ret' = get_health_status(args.score)
    /\ pc' = "done"
    /\ UNCHANGED <<op, args, store, frame>>

ScoreMetric ==
    /\ pc = "call" /\ op = "score_metric"
    /\ ret' = score_metric(args.metric_name, args.value, args.reverse)
    /\ pc' = "done"
    /\ UNCHANGED <<op, args, store, frame>>

\* analyze_growth returns (scores, notes) and sets self.scores['growth'].
AnalyzeGrowth ==
    /\ pc = "call" /\ op = "analyze_growth"
    /\ ret' = LET r == analyze_growth(args.metrics) IN
              [scores |-> r.scores, notes |-> r.notes,
               growth |-> category_score("growth", args.metrics)]
    /\ pc' = "done"
    /\ UNCHANGED <<op, args, store, frame>>

CalculateHealthScore ==
    /\ pc = "call" /\ op = "calculate_health_score"
    /\ ret' = calculate_health_score(args.ratios)
    /\ pc' = "done"
    /\ UNCHANGED <<op, args, store, frame>>

CalculateOverallScore ==
    /\ pc = "call" /\ op = "calculate_overall_score"
    /\ ret' \in calculate_overall_score(args.self)
    /\ pc' = "done"
    /\ UNCHANGED <<op, args, store, frame>>

RunFullAnalysis ==
    /\ pc = "call" /\ op = "run_full_analysis"
    /\ ret' \in run_full_analysis(args.health_rows, args.kpi_rows)
    /\ pc' = "done"
    /\ UNCHANGED <<op, args, store, frame>>

AnalyzeAllCompanies ==
    /\ pc = "call" /\ op = "analyze_all_companies"
    /\ ret' \in analyze_all_companies(args.companies, args.db)
    /\ pc' = "done"
    /\ UNCHANGED <<op, args, store, frame>>

\* load_data: self.metrics afterwards.
LoadData ==
    /\ pc = "call" /\ op = "load_data"
    /\ ret' = load_data(args.health_rows, args.kpi_rows)
    /\ pc' = "done"
    /\ UNCHANGED <<op, args, store, frame>>

\* One iteration of `for year in years` in create_gold_layer.
GoldYear ==
    /\ pc = "call" /\ op = "gold_year"
    /\ ret' = gold_year(args.income_row, args.balance_row, args.cashflow_row,
                        args.previous_revenue, args.previous_net_income)
    /\ pc' = "done"
    /\ UNCHANGED <<op, args, store, frame>>

-----------------------------------------------------------------------------
(* run_bronze_extraction, step by step.  store.committed holds the bronze   *)
(* tables as committed; frame holds the loop index, the rows the open       *)
(* transaction inserted and what each call of extract_to_bronze returned.   *)

InitRunBronzeExtraction ==
    /\ pc = "call" /\ op = "run_bronze_extraction"
    /\ ret = NULL
    /\ args \in RunBronzeExtractionCalls
    /\ store \in {[committed |-> rows] : rows \in StaleRows}
    /\ frame = <<>>

\* Lines 133-143: the bronze tables are emptied, and the deletion committed.
ClearBronze ==
    /\ pc = "call" /\ op = "run_bronze_extraction"
    /\ store' = [store EXCEPT !.committed = NoRows]
    /\ frame' = [index |-> 1, pending |-> NoRows, returned |-> <<>>]
    /\ pc' = "loop"
    /\ UNCHANGED <<op, args, ret>>

\* Lines 147-149 and 20-21: the next ticker; extract_to_bronze opens a connection,
\* and with it a transaction.
BeginExtract ==
    /\ pc = "loop" /\ op = "run_bronze_extraction"
    /\ frame.index <= Len(args.companies)
    /\ frame' = [frame EXCEPT !.pending = NoRows]
    /\ pc' = "fetch"
    /\ UNCHANGED <<op, args, ret, store>>

\* Lines 26-31: the three statements arrive.
FetchStatements ==
    /\ pc = "fetch" /\ op = "run_bronze_extraction"
    /\ pc' = NextPosition[pc]
    /\ UNCHANGED <<op, args, ret, store, frame>>

\* Lines 36-54, 57-72, 75-90: the rows of one statement are inserted.
InsertStatement ==
    /\ pc \in DOMAIN StatementAt /\ op = "run_bronze_extraction"
    /\ LET ticker == args.companies[frame.index].ticker
           table == StatementAt[pc]
           statement == args.provider[ticker][table]
       IN  frame' = [frame EXCEPT !.pending[table] =
                        IF empty(statement) THEN @
                        ELSE @ \o statement_rows(ticker, statement)]
    /\ pc' = NextPosition[pc]
    /\ UNCHANGED <<op, args, ret, store>>

\* Lines 92-96 and 151-157: the transaction is committed and the dataframes
\* returned; the loop goes on.
CommitExtract ==
    /\ pc = "commit" /\ op = "run_bronze_extraction"
    /\ store' = [store EXCEPT !.committed = commit(@, frame.pending)]
    /\ frame' = [frame EXCEPT
                    !.index = @ + 1,
                    !.pending = NoRows,
                    !.returned = Append(@, all_dataframes(
                        args.provider[args.companies[frame.index].ticker]))]
    /\ pc' = "loop"
    /\ UNCHANGED <<op, args, ret>>

\* Lines 98-103 and 151-157: the provider raises, while the statements are
\* fetched or after some of the rows of a statement were inserted; the
\* transaction is rolled back and {} returned; the loop goes on.
ProviderFailure ==
    /\ pc \in {"fetch"} \cup DOMAIN StatementAt /\ op = "run_bronze_extraction"
    /\ LET ticker == args.companies[frame.index].ticker
           rows == IF pc = "fetch" \/ empty(args.provider[ticker][StatementAt[pc]])
                   THEN <<>>
                   ELSE statement_rows(ticker, args.provider[ticker][StatementAt[pc]])
       IN  \E inserted \in 0..Len(rows) :
               LET pending == IF pc = "fetch" THEN frame.pending
                              ELSE [frame.pending EXCEPT ![StatementAt[pc]] =
                                       @ \o SubSeq(rows, 1, inserted)]
               IN  /\ store' = [store EXCEPT !.committed = rollback(@, pending)]
                   /\ frame' = [frame EXCEPT !.index = @ + 1,
                                             !.pending = NoRows,
                                             !.returned = Append(@, {})]
    /\ pc' = "loop"
    /\ UNCHANGED <<op, args, ret>>

\* Lines 159-161: every company was visited; nothing is returned.
EndBronzeExtraction ==
    /\ pc = "loop" /\ op = "run_bronze_extraction"
    /\ frame.index > Len(args.companies)
    /\ pc' = "done"
    /\ UNCHANGED <<op, args, ret, store, frame>>

-----------------------------------------------------------------------------
(* create_gold_layer, step by step.  store holds the silver and the gold    *)
(* tables; frame holds the locals of the two loops; ret collects the gold   *)
(* tables each run ended with.                                              *)

GoldTables(tables) ==
    [gold_financial_health |-> tables.gold_financial_health,
     gold_kpi_dashboard |-> tables.gold_kpi_dashboard]

InitCreateGoldLayer ==
    /\ pc = "call" /\ op = "create_gold_layer"
    /\ ret = <<>>
    /\ args \in CreateGoldLayerCalls
    /\ \E stale \in StaleGold :
           LET silver == silver_of(args.companies, args.histories) IN
           store = [silver_income_statement |-> silver.silver_income_statement,
                    silver_balance_sheet |-> silver.silver_balance_sheet,
                    silver_cash_flow |-> silver.silver_cash_flow,
                    gold_financial_health |-> stale.gold_financial_health,
                    gold_kpi_dashboard |-> stale.gold_kpi_dashboard]
    /\ frame = <<>>

\* Lines 192-199: the gold tables are emptied.
TruncateGold ==
    /\ pc = "call" /\ op = "create_gold_layer"
    /\ store' = [store EXCEPT
                    !.gold_financial_health = truncate(@),
                    !.gold_kpi_dashboard = truncate(@)]
    /\ frame' = [index |-> 1, years |-> <<>>, previous_revenue |-> NULL,
                 previous_net_income |-> NULL]
    /\ pc' = "ticker"
    /\ UNCHANGED <<op, args, ret>>

\* Lines 201-212: the next ticker, its years, and the carried values reset.
BeginTicker ==
    /\ pc = "ticker" /\ op = "create_gold_layer"
    /\ frame.index <= Len(args.companies)
    /\ frame' = [frame EXCEPT
                    !.years = years_of(store.silver_income_statement,
                                       args.companies[frame.index].ticker),
                    !.previous_revenue = carried_at_ticker_start(@),
                    !.previous_net_income = carried_at_ticker_start(@)]
    /\ pc' = "year"
    /\ UNCHANGED <<op, args, ret, store>>

\* Lines 214-323: one iteration of the loop over the years.
ProcessYear ==
    /\ pc = "year" /\ op = "create_gold_layer"
    /\ frame.years # <<>>
    /\ LET company == args.companies[frame.index]
           year == Head(frame.years)
           computed == gold_year(
               fetchone(store.silver_income_statement, company.ticker, year,
                        IncomeColumns),
               fetchone(store.silver_balance_sheet, company.ticker, year,
                        BalanceColumns),
               fetchone(store.silver_cash_flow, company.ticker, year, CashflowColumns),
               frame.previous_revenue, frame.previous_net_income)
       IN  /\ store' = IF computed.skipped THEN store
                       ELSE [store EXCEPT
                                !.gold_financial_health =
                                    Append(@, health_record(company, year,
                                                            computed.gold_financial_health)),
                                !.gold_kpi_dashboard =
                                    Append(@, kpi_record(company, year,
                                                         computed.gold_kpi_dashboard))]
           /\ frame' = [frame EXCEPT
                           !.years = Tail(@),
                           !.previous_revenue = computed.previous_revenue,
                           !.previous_net_income = computed.previous_net_income]
    /\ UNCHANGED <<op, args, ret, pc>>

\* Line 325: the rows of the ticker are committed; the loop goes on.
CommitTicker ==
    /\ pc = "year" /\ op = "create_gold_layer"
    /\ frame.years = <<>>
    /\ frame' = [frame EXCEPT !.index = @ + 1]
    /\ pc' = "ticker"
    /\ UNCHANGED <<op, args, ret, store>>

\* Lines 328-351: the ranks are set and the function returns.
RankCompanies ==
    /\ pc = "ticker" /\ op = "create_gold_layer"
    /\ frame.index > Len(args.companies)
    /\ store' = [store EXCEPT !.gold_kpi_dashboard = update_ranks(@)]
    /\ ret' = Append(ret, GoldTables(store'))
    /\ pc' = "done"
    /\ UNCHANGED <<op, args, frame>>

\* create_gold_layer is called again on the same silver tables.
RunAgain ==
    /\ pc = "done" /\ op = "create_gold_layer"
    /\ Len(ret) < MaxRuns
    /\ pc' = "call"
    /\ UNCHANGED <<op, args, ret, store, frame>>

-----------------------------------------------------------------------------
(* The notes of one set of ratios *)

GenerateAnalysisNotes ==
    /\ pc = "call" /\ op = "generate_analysis_notes"
    /\ ret' = generate_analysis_notes(args.ratios, NULL)
    /\ pc' = "done"
    /\ UNCHANGED <<op, args, store, frame>>

\* The five analyze_* methods in the order run_full_analysis calls them.
AllNotes ==
    /\ pc = "call" /\ op = "all_notes"
    /\ ret' = all_notes_of(args.metrics)
    /\ pc' = "done"
    /\ UNCHANGED <<op, args, store, frame>>

-----------------------------------------------------------------------------
(* analyze_all_companies and analyze_single_company, statement by statement *)

InitAnalyze ==
    /\ \/ op = "analyze_all_companies" /\ args \in AnalyzeAllCompaniesCalls
       \/ op = "analyze_single_company" /\ args \in AnalyzeSingleCompanyCalls
    /\ ret = NULL
    /\ pc = "new"
    /\ store = [open |-> {}, opened |-> 0]
    /\ frame = [index |-> 1, conn |-> NULL, outcome |-> NULL, analysed |-> <<>>]

\* Lines 426 and 469: analyzer = FinancialHealthAnalyzer(ticker)
NewFinancialHealthAnalyzer ==
    /\ pc = "new" /\ op \in {"analyze_all_companies", "analyze_single_company"}
    /\ frame.index <= Len(args.companies)
    /\ store' = get_connection(store)
    /\ frame' = [frame EXCEPT !.conn = store.opened]
    /\ pc' = "run"
    /\ UNCHANGED <<op, args, ret>>

\* Lines 427 and 470: score, status = analyzer.run_full_analysis()
AnalyzerRunFullAnalysis ==
    /\ pc = "run"
    /\ LET data == args.db[args.companies[frame.index].ticker] IN
       \E outcome \in run_full_analysis(data.health_rows, data.kpi_rows) :
           frame' = [frame EXCEPT !.outcome = outcome]
    /\ pc' = "ran"
    /\ UNCHANGED <<op, args, ret, store>>

\* Lines 429-442: the rest of an iteration of analyze_all_companies; its last
\* statement is analyzer.close().
CloseAnalyzer ==
    /\ pc = "ran" /\ op = "analyze_all_companies"
    /\ store' = close(store, frame.conn)
    /\ frame' = [frame EXCEPT !.index = @ + 1,
                              !.conn = NULL,
                              !.outcome = NULL,
                              !.analysed = Append(@, frame.outcome)]
    /\ pc' = "new"
    /\ UNCHANGED <<op, args, ret>>

\* Lines 444-464: the summary, and the end of analyze_all_companies.
Summary ==
    /\ pc = "new" /\ op = "analyze_all_companies"
    /\ frame.index > Len(args.companies)
    /\ ret' = sort_by_score(collect_results(args.companies, frame.analysed))
    /\ pc' = "done"
    /\ UNCHANGED <<op, args, store, frame>>

\* Lines 472-474: return analyzer.is_healthy()
ReturnHealthy ==
    /\ pc = "ran" /\ op = "analyze_single_company"
    /\ ~IsNone(frame.outcome.score)
    /\ ret' = is_healthy(frame.outcome.self)
    /\ pc' = "done"
    /\ UNCHANGED <<op, args, store, frame>>

\* Lines 475-477: return None.  The analyzer.close() of line 479 follows the two
\* return statements: no path reaches it.
ReturnNone ==
    /\ pc = "ran" /\ op = "analyze_single_company"
    /\ IsNone(frame.outcome.score)
    /\ ret' = NULL
    /\ pc' = "done"
    /\ UNCHANGED <<op, args, store, frame>>

-----------------------------------------------------------------------------
(* transform_to_silver, step by step.  store holds the bronze tables (as    *)
(* committed), the silver and the gold tables; frame holds the locals of    *)
(* the two loops, with the rows the queries of the last year returned and   *)
(* the records it inserted.                                                 *)

InitTransformToSilver ==
    /\ pc = "call" /\ op = "transform_to_silver"
    /\ ret = NULL
    /\ args \in TransformToSilverCalls
    /\ store \in TransformToSilverStores
    /\ frame = <<>>

\* Lines 74-84: the silver tables are emptied.
TruncateSilver ==
    /\ pc = "call" /\ op = "transform_to_silver"
    /\ store' = truncate_cascade(store)
    /\ frame' = [index |-> 1, years |-> <<>>, ticker |-> "", year |-> <<>>,
                 fetched |-> [income |-> <<>>, balance |-> <<>>, cashflow |-> <<>>],
                 silver |-> [silver_income_statement |-> <<>>,
                             silver_balance_sheet |-> <<>>,
                             silver_cash_flow |-> <<>>]]
    /\ pc' = "companies"
    /\ UNCHANGED <<op, args, ret>>

\* Lines 86-94: the company dimension.
InsertCompanies ==
    /\ pc = "companies" /\ op = "transform_to_silver"
    /\ store' = [store EXCEPT !.silver_companies = @ \o company_rows(args.companies)]
    /\ pc' = "ticker"
    /\ UNCHANGED <<op, args, ret, frame>>

\* Lines 97-107: the next ticker and the years of its bronze income rows.
BeginSilverTicker ==
    /\ pc = "ticker" /\ op = "transform_to_silver"
    /\ frame.index <= Len(args.companies)
    /\ frame' = [frame EXCEPT
                    !.years = bronze_years(store.committed.bronze_income_statement,
                                           args.companies[frame.index].ticker)]
    /\ pc' = "year"
    /\ UNCHANGED <<op, args, ret, store>>

\* Lines 109-162: one iteration of the loop over the years; each of the three
\* queries returns its rows in some order.
TransformYear ==
    /\ pc = "year" /\ op = "transform_to_silver"
    /\ frame.years # <<>>
    /\ LET ticker == args.companies[frame.index].ticker
           year == Head(frame.years)
           bronze == store.committed
       IN  \E income_rows \in Fetched(bronze_rows(bronze.bronze_income_statement,
                                                  ticker, year)),
              balance_rows \in Fetched(bronze_rows(bronze.bronze_balance_sheet,
                                                   ticker, year)),
              cashflow_rows \in Fetched(bronze_rows(bronze.bronze_cash_flow,
                                                    ticker, year)) :
               LET silver == transform_year(ticker, year, income_rows, balance_rows,
                                            cashflow_rows)
               IN  /\ store' = [store EXCEPT
                                   !.silver_income_statement =
                                       @ \o silver.silver_income_statement,
                                   !.silver_balance_sheet =
                                       @ \o silver.silver_balance_sheet,
                                   !.silver_cash_flow = @ \o silver.silver_cash_flow]
                   /\ frame' = [frame EXCEPT
                                   !.years = Tail(@),
                                   !.ticker = ticker,
                                   !.year = year,
                                   !.fetched = [income |-> income_rows,
                                                balance |-> balance_rows,
                                                cashflow |-> cashflow_rows],
                                   !.silver = silver]
    /\ UNCHANGED <<op, args, ret, pc>>

\* Line 164: the rows of the ticker are committed; the loop goes on.
CommitSilverTicker ==
    /\ pc = "year" /\ op = "transform_to_silver"
    /\ frame.years = <<>>
    /\ frame' = [frame EXCEPT !.index = @ + 1]
    /\ pc' = "ticker"
    /\ UNCHANGED <<op, args, ret, store>>

\* Lines 167-172: every company was visited.
EndTransformToSilver ==
    /\ pc = "ticker" /\ op = "transform_to_silver"
    /\ frame.index > Len(args.companies)
    /\ pc' = "done"
    /\ UNCHANGED <<op, args, ret, store, frame>>

-----------------------------------------------------------------------------
(* run_full_pipeline: the three layers in sequence over the same tables *)

InitRunFullPipeline ==
    /\ pc = "call" /\ op = "run_bronze_extraction"
    /\ ret = NULL
    /\ args \in PipelineCalls
    /\ \E tables \in EarlierTables, rows \in StaleRows :
           store = WithBronze(tables, rows)
    /\ frame = <<>>

\* run_pipeline.py lines 33-37: run_bronze_extraction has returned;
\* transform_to_silver is called.
CallTransformToSilver ==
    /\ pc = "done" /\ op = "run_bronze_extraction"
    /\ op' = "transform_to_silver"
    /\ pc' = "call"
    /\ ret' = NULL
    /\ frame' = <<>>
    /\ UNCHANGED <<args, store>>

\* run_pipeline.py lines 37-41: transform_to_silver has returned;
\* create_gold_layer is called.
CallCreateGoldLayer ==
    /\ pc = "done" /\ op = "transform_to_silver"
    /\ op' = "create_gold_layer"
    /\ pc' = "call"
    /\ ret' = <<>>
    /\ frame' = <<>>
    /\ UNCHANGED <<args, store>>

-----------------------------------------------------------------------------
(* The specifications *)

\* The primitives: safe_divide, get_health_status, score_metric, analyze_growth.
Init ==
    \/ InitCall("safe_divide", SafeDivideCalls)
    \/ InitCall("get_health_status", GetHealthStatusCalls)
    \/ InitCall("score_metric", ScoreMetricCalls)
    \/ InitCall("analyze_growth", AnalyzeGrowthCalls)

Next == SafeDivide \/ GetHealthStatus \/ ScoreMetric \/ AnalyzeGrowth

Spec == Init /\ [][Next]_vars

\* Scheme (a): calculate_health_score.
InitScore == InitCall("calculate_health_score", CalculateHealthScoreCalls)

NextScore == CalculateHealthScore

SpecScore == InitScore /\ [][NextScore]_vars

\* Scheme (b): the analyzer.
InitAnalyzer ==
    \/ InitCall("calculate_overall_score", CalculateOverallScoreCalls)
    \/ InitCall("run_full_analysis", RunFullAnalysisCalls)
    \/ InitCall("load_data", LoadDataCalls)

NextAnalyzer == CalculateOverallScore \/ RunFullAnalysis \/ LoadData

SpecAnalyzer == InitAnalyzer /\ [][NextAnalyzer]_vars

\* The two growth computations: create_gold_layer's and load_data's.
InitGrowth ==
    \/ InitCall("gold_year", GoldGrowthCalls)
    \/ InitCall("load_data", LoadDataCalls)

NextGrowth == GoldYear \/ LoadData

SpecGrowth == InitGrowth /\ [][NextGrowth]_vars

\* The gold layer: one (ticker, year) of create_gold_layer.
InitGold == InitCall("gold_year", GoldYearCalls)

NextGold == GoldYear

SpecGold == InitGold /\ [][NextGold]_vars

\* The ranking of analyze_all_companies.
InitRanking == InitCall("analyze_all_companies", AnalyzeAllCompaniesCalls)

NextRanking == AnalyzeAllCompanies

SpecRanking == InitRanking /\ [][NextRanking]_vars

\* The silver layer: transform_to_silver over the bronze tables.
NextSilver ==
    \/ TruncateSilver \/ InsertCompanies \/ BeginSilverTicker \/ TransformYear
    \/ CommitSilverTicker \/ EndTransformToSilver

SpecSilver == InitTransformToSilver /\ [][NextSilver]_vars

\* The two classifications of a score.
InitTiers ==
    \/ InitCall("get_health_status", GetHealthStatusCalls)
    \/ InitCall("calculate_overall_score", CalculateOverallScoreCalls)

NextTiers == GetHealthStatus \/ CalculateOverallScore

SpecTiers == InitTiers /\ [][NextTiers]_vars

\* The two ratio-to-score mappings.
InitMonotone ==
    \/ InitCall("score_metric", ScoreMetricCalls)
    \/ InitCall("calculate_health_score", FewRatiosCalls)

NextMonotone == ScoreMetric \/ CalculateHealthScore

SpecMonotone == InitMonotone /\ [][NextMonotone]_vars

\* The notes of the two schemes.
InitNotes ==
    \/ InitCall("run_full_analysis", RunFullAnalysisCalls)
    \/ InitCall("gold_year", GoldYearCalls)

NextNotes == RunFullAnalysis \/ GoldYear

SpecNotes == InitNotes /\ [][NextNotes]_vars

\* The bronze layer: run_bronze_extraction with a provider that may fail.
NextBronze ==
    \/ ClearBronze \/ BeginExtract \/ FetchStatements \/ InsertStatement
    \/ CommitExtract \/ ProviderFailure \/ EndBronzeExtraction

SpecBronze == InitRunBronzeExtraction /\ [][NextBronze]_vars

\* The gold layer over the silver tables, run repeatedly.
NextRefresh ==
    \/ TruncateGold \/ BeginTicker \/ ProcessYear \/ CommitTicker \/ RankCompanies
    \/ RunAgain

SpecRefresh == InitCreateGoldLayer /\ [][NextRefresh]_vars

\* The three layers in sequence, for one company.
NextPipeline ==
    \/ NextBronze
    \/ CallTransformToSilver
    \/ NextSilver
    \/ CallCreateGoldLayer
    \/ TruncateGold \/ BeginTicker \/ ProcessYear \/ CommitTicker \/ RankCompanies

SpecPipeline == InitRunFullPipeline /\ [][NextPipeline]_vars

\* The notes of generate_analysis_notes and of the analyze_* methods.
InitAdditive ==
    \/ InitCall("generate_analysis_notes", GenerateAnalysisNotesCalls)
    \/ InitCall("all_notes", AllNotesCalls)

NextAdditive == GenerateAnalysisNotes \/ AllNotes

SpecAdditive == InitAdditive /\ [][NextAdditive]_vars

\* The connections of the analyzers of the two entry points.
NextConnections ==
    \/ NewFinancialHealthAnalyzer \/ AnalyzerRunFullAnalysis \/ CloseAnalyzer
    \/ Summary \/ ReturnHealthy \/ ReturnNone

SpecConnections == InitAnalyze /\ [][NextConnections]_vars

Returned(name) == pc = "done" /\ op = name

-----------------------------------------------------------------------------
(* C1: safe_divide returns None when the numerator is None, the denominator *)
(* is None or the denominator is 0; for every other pair it returns the     *)
(* quotient numerator/denominator (10/4 = 2.5), and it never raises.        *)
C1_SafeDivideContract ==
    Returned("safe_divide") =>
        LET a == args.numerator
            b == args.denominator
        IN  /\ ~IsRaised(ret)
            /\ IsNone(ret) <=> (IsNone(a) \/ IsNone(b) \/ b = Num(0))
            /\ ~IsNone(ret) => ret.n * b.n * a.d = a.n * b.d * ret.d
            /\ (a = Num(10) /\ b = Num(4)) => ret = Rat(25, 10)

C1_Witness ==
    /\ Returned("safe_divide")
    /\ args.numerator = Num(10) /\ args.denominator = Num(4)
    /\ ret = Rat(5, 2)

-----------------------------------------------------------------------------
(* C2: get_health_status is a monotone step function of the score:          *)
(* >= 80 Excellent, >= 65 Good, >= 50 Fair, >= 35 Concerning, lower Poor;   *)
(* Unknown exactly for the undefined score; a higher score never yields a   *)
(* worse status.                                                            *)
StatusRank(status) ==
    CASE status = "Excellent" -> 5
      [] status = "Good" -> 4
      [] status = "Fair" -> 3
      [] status = "Concerning" -> 2
      [] status = "Poor" -> 1
      [] OTHER -> 0

C2_HealthStatusStep ==
    Returned("get_health_status") =>
        LET s == args.score IN
        /\ (ret = "Unknown") <=> IsNone(s)
        /\ ~IsNone(s) =>
            /\ (ret = "Excellent") <=> s.n >= 80 * s.d
            /\ (ret = "Good") <=> (s.n >= 65 * s.d /\ s.n < 80 * s.d)
            /\ (ret = "Fair") <=> (s.n >= 50 * s.d /\ s.n < 65 * s.d)
            /\ (ret = "Concerning") <=> (s.n >= 35 * s.d /\ s.n < 50 * s.d)
            /\ (ret = "Poor") <=> s.n < 35 * s.d
            /\ \A t \in ScoreInputs \ {NULL} :
                   Ge(t, s) => StatusRank(get_health_status(t)) >= StatusRank(ret)
        /\ (s = Num(80) => ret = "Excellent")
        /\ (s = Rat(799, 10) => ret = "Good")
        /\ (s = Num(65) => ret = "Good")
        /\ (s = Num(50) => ret = "Fair")
        /\ (s = Rat(349, 10) => ret = "Poor")

C2_Witness ==
    /\ Returned("get_health_status")
    /\ args.score = Num(80)
    /\ ret = "Excellent"

-----------------------------------------------------------------------------
(* C3: with at least one tracked ratio present, calculate_health_score      *)
(* returns 100 x awarded / possible, where possible sums the per-metric     *)
(* maxima (10, 10, 15, 15, 15, 10, 15, 10) of the metrics present, awarded  *)
(* never exceeds possible, and the result lies in [0, 100].                 *)
MetricMaximum ==
    [current_ratio |-> 10, cash_ratio |-> 10, net_margin |-> 15, roe |-> 15,
     debt_to_equity |-> 15, debt_to_assets |-> 10,
     operating_cash_flow_ratio |-> 15, free_cash_flow_margin |-> 10]

RECURSIVE SumOver(_, _)
SumOver(f, keys) ==
    IF keys = {} THEN 0
    ELSE LET k == CHOOSE x \in keys : TRUE IN f[k] + SumOver(f, keys \ {k})

Present(ratios) == {k \in TrackedRatios : ~IsNone(ratios[k])}

PossiblePoints(ratios) == SumOver(MetricMaximum, Present(ratios))

\* The claim as stated: the result is the exact quotient.
C3_ExactQuotient ==
    (Returned("calculate_health_score") /\ Present(args.ratios) # {}) =>
        /\ ~IsNone(ret)
        /\ ret.n * PossiblePoints(args.ratios)
             = 100 * health_points(args.ratios).score * ret.d

\* The claim as amended: the result is the quotient rounded to 2 decimals.
C3_RoundedQuotient ==
    (Returned("calculate_health_score") /\ Present(args.ratios) # {}) =>
        LET possible == PossiblePoints(args.ratios)
            awarded == health_points(args.ratios).score
        IN  /\ health_points(args.ratios).max_score = possible
            /\ SumOver(MetricMaximum, {"current_ratio", "cash_ratio"}) = 20
            /\ SumOver(MetricMaximum, {"net_margin", "roe"}) = 30
            /\ SumOver(MetricMaximum, {"debt_to_equity", "debt_to_assets"}) = 25
            /\ SumOver(MetricMaximum,
                       {"operating_cash_flow_ratio", "free_cash_flow_margin"}) = 25
            /\ 0 <= awarded /\ awarded <= possible
            /\ ~IsNone(ret) /\ ~IsRaised(ret)
            /\ 100 % ret.d = 0
            /\ Cardinality(round_outcomes(Rat(100 * awarded, possible), 2)) = 1
            \* |ret - 100 awarded / possible| <= 1/200
            /\ 200 * (ret.n * possible - 100 * awarded * ret.d) <= ret.d * possible
            /\ 200 * (100 * awarded * ret.d - ret.n * possible) <= ret.d * possible
            /\ Ge(ret, Num(0)) /\ Le(ret, Num(100))

\* net_margin 0.05 alone: 8 of 15 points, 53.33 and not 53.333...
C3_Witness ==
    /\ Returned("calculate_health_score")
    /\ Present(args.ratios) = {"net_margin"}
    /\ args.ratios.net_margin = Dec(5)
    /\ ret = Rat(5333, 100)

-----------------------------------------------------------------------------
(* C4: when every tracked ratio is None, calculate_health_score returns the *)
(* numeric score 0.                                                         *)
C4_ZeroWhenEmpty ==
    (Returned("calculate_health_score") /\ Present(args.ratios) = {}) =>
        ret = Num(0)

-----------------------------------------------------------------------------
(* C5: score_metric maps a non-None value of a metric with thresholds to    *)
(* the score (100, 75, 50, 25) of the first band among excellent, good,     *)
(* fair, poor whose threshold is met (value >= threshold, or value <=       *)
(* threshold when reverse), and to 10 when none is met; a value on a        *)
(* threshold gets the better band; a None value or a metric without         *)
(* thresholds scores None.                                                  *)
Bands == <<"excellent", "good", "fair", "poor">>

BandScore == <<100, 75, 50, 25>>

\* value >= h/100 and value <= h/100, by cross-multiplication
AtLeast(value, h) == value.n * 100 >= h * value.d

AtMost(value, h) == value.n * 100 <= h * value.d

BandsMet(metric_name, value, reverse) ==
    {i \in 1..4 :
        IF reverse THEN AtMost(value, THRESHOLDS[metric_name][Bands[i]])
        ELSE AtLeast(value, THRESHOLDS[metric_name][Bands[i]])}

C5_ScoreMetricBands ==
    Returned("score_metric") =>
        LET met == IF IsNone(args.value) \/ args.metric_name \notin DOMAIN THRESHOLDS
                   THEN {}
                   ELSE BandsMet(args.metric_name, args.value, args.reverse)
        IN  /\ (IsNone(args.value) \/ args.metric_name = "asset_turnover") <=> ret = NULL
            /\ ret # NULL =>
                /\ ret \in {Num(100), Num(75), Num(50), Num(25), Num(10)}
                /\ met = {} <=> ret = Num(10)
                /\ met # {} =>
                       ret = Num(BandScore[CHOOSE i \in met : \A j \in met : i <= j])
            /\ (args.metric_name = "current_ratio" /\ args.value = Num(2)
                /\ ~args.reverse) => ret = Num(100)
            /\ (args.metric_name = "debt_to_equity" /\ args.value = Rat(1, 2)
                /\ args.reverse) => ret = Num(100)

C5_Witness ==
    /\ Returned("score_metric")
    /\ args.metric_name = "debt_to_equity" /\ args.value = Rat(1, 2) /\ args.reverse
    /\ ret = Num(100)

-----------------------------------------------------------------------------
(* C6: calculate_overall_score returns the weighted mean of the category    *)
(* scores present, with weights 0.15 / 0.30 / 0.20 / 0.20 / 0.15 divided by *)
(* the sum of the weights present (profitability and leverage alone weigh   *)
(* 0.6 and 0.4); each category score is the mean of its observed            *)
(* sub-metric scores; the result lies in [0, 100].                          *)
ClaimedWeight ==
    [liquidity |-> 15, profitability |-> 30, leverage |-> 20, cash_flow |-> 20,
     growth |-> 15]

RECURSIVE WeightedSum(_, _)
WeightedSum(scores, present) ==
    IF present = {} THEN Num(0)
    ELSE LET c == CHOOSE x \in present : TRUE IN
         Add(Mul(scores[c], Num(ClaimedWeight[c])), WeightedSum(scores, present \ {c}))

\* The weighted mean of scores over the categories of present.
WeightedMean(scores, present) ==
    Div(WeightedSum(scores, present), Num(SumOver(ClaimedWeight, present)))

\* |x - y| <= 1/20: x is y rounded to one decimal
WithinHalfTenth(x, y) ==
    /\ 10 % x.d = 0
    /\ Le(Abs(Sub(x, y)), Rat(1, 20))

\* The observed sub-metric scores of the four ratio categories.
CategoryMetrics ==
    [liquidity |-> {"current_ratio", "cash_ratio"},
     profitability |-> {"gross_margin", "operating_margin", "net_margin", "roe", "roa"},
     leverage |-> {"debt_to_equity", "debt_to_assets"},
     cash_flow |-> {"operating_cash_flow_ratio", "free_cash_flow_margin"}]

Observed(metrics, category) ==
    {m \in CategoryMetrics[category] : ~IsNone(Get(metrics, m))}

RECURSIVE SumScores(_, _, _)
SumScores(metrics, category, ms) ==
    IF ms = {} THEN Num(0)
    ELSE LET m == CHOOSE x \in ms : TRUE IN
         Add(score_metric(m, metrics[m], category = "leverage"),
             SumScores(metrics, category, ms \ {m}))

MeanOfObserved(metrics, category) ==
    Div(SumScores(metrics, category, Observed(metrics, category)),
        Num(Cardinality(Observed(metrics, category))))

\* The claim as stated: the result is the weighted mean itself.
C6_ExactWeightedMean ==
    (Returned("calculate_overall_score") /\ DOMAIN args.self.scores # {}) =>
        ret.overall_score = WeightedMean(args.self.scores, DOMAIN args.self.scores)

\* As amended: the result is the weighted mean rounded to one decimal.
C6_RoundedWeightedMean ==
    /\ (Returned("calculate_overall_score") /\ DOMAIN args.self.scores # {}) =>
        LET scores == args.self.scores
            present == DOMAIN scores
        IN  /\ WithinHalfTenth(ret.overall_score, WeightedMean(scores, present))
            /\ Ge(ret.overall_score, Num(0)) /\ Le(ret.overall_score, Num(100))
            /\ present = {"profitability", "leverage"} =>
                   WithinHalfTenth(ret.overall_score,
                                   Add(Mul(Rat(6, 10), scores.profitability),
                                       Mul(Rat(4, 10), scores.leverage)))
    /\ (Returned("run_full_analysis") /\ DOMAIN ret.self.metrics # {}) =>
        /\ \A c \in DOMAIN CategoryMetrics :
               Observed(ret.self.metrics, c) # {} =>
                   ret.self.scores[c] = MeanOfObserved(ret.self.metrics, c)
        /\ Ge(ret.score, Num(0)) /\ Le(ret.score, Num(100))

\* liquidity 87.5 and profitability 75: 35.625 / 0.45 = 79.1666..., returned as 79.2
C6_Witness ==
    /\ Returned("calculate_overall_score")
    /\ DOMAIN args.self.scores = {"liquidity", "profitability"}
    /\ args.self.scores.liquidity = Rat(175, 2)
    /\ args.self.scores.profitability = Num(75)
    /\ ret.overall_score = Rat(792, 10)

-----------------------------------------------------------------------------
(* C7: in run_full_analysis a liquidity, profitability, leverage or         *)
(* cash_flow category with no observed ratios is left out of the weighted   *)
(* sum and of its denominator (not zero-filled); growth with no growth      *)
(* values is included with the neutral score 50.                            *)
CategoriesWithData(metrics) ==
    {c \in DOMAIN CategoryMetrics : Observed(metrics, c) # {}} \cup {"growth"}

C7_EmptyCategoryExcluded ==
    (Returned("run_full_analysis") /\ DOMAIN ret.self.metrics # {}) =>
        LET metrics == ret.self.metrics
            growth == {k \in {"revenue_growth", "profit_growth"} : k \in DOMAIN metrics}
        IN  /\ growth = {} => ret.self.scores.growth = Num(50)
            /\ WithinHalfTenth(ret.score,
                               WeightedMean(ret.self.scores, CategoriesWithData(metrics)))

-----------------------------------------------------------------------------
(* C8: analyze_growth scores revenue_growth 100 when > 20%, 75 when > 10%,  *)
(* 50 when > 0%, otherwise 25, and profit_growth 100 when > 15%, 75 when    *)
(* > 0%, 50 when > -10%, otherwise 25 (strict comparisons); the category    *)
(* score is the mean of the scores present and 50 when there is none.       *)
MoreThan(value, h) == value.n * 100 > h * value.d

RevenueGrowthScore(g) ==
    IF MoreThan(g, 20) THEN 100 ELSE IF MoreThan(g, 10) THEN 75
    ELSE IF MoreThan(g, 0) THEN 50 ELSE 25

ProfitGrowthScore(g) ==
    IF MoreThan(g, 15) THEN 100 ELSE IF MoreThan(g, 0) THEN 75
    ELSE IF MoreThan(g, -10) THEN 50 ELSE 25

C8_GrowthBands ==
    Returned("analyze_growth") =>
        LET r == args.metrics.revenue_growth
            p == args.metrics.profit_growth
            expected == (IF IsNone(r) THEN <<>> ELSE <<RevenueGrowthScore(r)>>)
                        \o (IF IsNone(p) THEN <<>> ELSE <<ProfitGrowthScore(p)>>)
        IN  /\ Len(ret.scores) = Len(expected)
            /\ \A i \in 1..Len(expected) : ret.scores[i] = Num(expected[i])
            /\ Len(expected) = 0 => ret.growth = Num(50)
            /\ Len(expected) = 1 => ret.growth = Num(expected[1])
            /\ Len(expected) = 2 => ret.growth = Rat(expected[1] + expected[2], 2)

\* revenue growth of exactly 20% scores 75, profit growth of exactly 0% scores 50
C8_Witness ==
    /\ Returned("analyze_growth")
    /\ args.metrics.revenue_growth = Rat(1, 5)
    /\ args.metrics.profit_growth = Num(0)
    /\ ret.scores = <<Num(75), Num(50)>>
    /\ ret.growth = Rat(125, 2)

-----------------------------------------------------------------------------
(* C9: revenue_growth = (current - previous) / |previous|, and profit_growth *)
(* likewise from net income; each is None exactly when the previous value   *)
(* is None or zero and a number otherwise; for the growth create_gold_layer *)
(* stores and for the growth load_data derives.                             *)
ClaimedGrowth(current, previous, growth) ==
    /\ IsNone(growth) <=> (IsNone(previous) \/ previous = Num(0))
    /\ (~IsNone(growth) /\ ~IsNone(current)) =>
           growth = Div(Sub(current, previous), Abs(previous))

C9_GrowthFormula ==
    /\ (Returned("gold_year") /\ ~ret.skipped) =>
        /\ ClaimedGrowth(Field(args.income_row, "revenue"), args.previous_revenue,
                         ret.gold_kpi_dashboard.revenue_growth)
        /\ ClaimedGrowth(Field(args.income_row, "net_income"), args.previous_net_income,
                         ret.gold_kpi_dashboard.profit_growth)
    /\ (Returned("load_data") /\ Len(args.kpi_rows) = 2) =>
        /\ ClaimedGrowth(args.kpi_rows[1].revenue, args.kpi_rows[2].revenue,
                         Get(ret, "revenue_growth"))
        /\ ClaimedGrowth(args.kpi_rows[1].net_income, args.kpi_rows[2].net_income,
                         Get(ret, "profit_growth"))

-----------------------------------------------------------------------------
(* C10: each of the 13 ratios of create_gold_layer is None if and only if   *)
(* one of its required input metrics is None or its denominator is zero;    *)
(* division by zero never raises.                                           *)
\* The numerator and denominator columns of each ratio; the debt figure of the
\* leverage ratios is total_debt, or total_liabilities when total_debt is absent.
RatioInputs ==
    [current_ratio |-> <<"current_assets", "current_liabilities">>,
     quick_ratio |-> <<"current_assets", "current_liabilities">>,
     cash_ratio |-> <<"cash_and_equivalents", "current_liabilities">>,
     gross_margin |-> <<"gross_profit", "revenue">>,
     operating_margin |-> <<"operating_income", "revenue">>,
     net_margin |-> <<"net_income", "revenue">>,
     roe |-> <<"net_income", "total_equity">>,
     roa |-> <<"net_income", "total_assets">>,
     debt_to_equity |-> <<"debt", "total_equity">>,
     debt_to_assets |-> <<"debt", "total_assets">>,
     asset_turnover |-> <<"revenue", "total_assets">>,
     operating_cash_flow_ratio |-> <<"operating_cash_flow", "current_liabilities">>,
     free_cash_flow_margin |-> <<"free_cash_flow", "revenue">>]

Metric(call, column) ==
    IF column = "debt"
    THEN IF ~IsNone(Field(call.balance_row, "total_debt"))
         THEN Field(call.balance_row, "total_debt")
         ELSE Field(call.balance_row, "total_liabilities")
    ELSE IF column \in DOMAIN BaseIncome THEN Field(call.income_row, column)
    ELSE IF column \in DOMAIN BaseBalance THEN Field(call.balance_row, column)
    ELSE Field(call.cashflow_row, column)

RatioNullIffInputMissing(call, ratios, name) ==
    LET numerator == Metric(call, RatioInputs[name][1])
        denominator == Metric(call, RatioInputs[name][2])
    IN  /\ ~IsRaised(ratios[name])
        /\ IsNone(ratios[name]) <=>
               (IsNone(numerator) \/ IsNone(denominator) \/ denominator = Num(0))

C10_RatioNullIffInputMissing ==
    (Returned("gold_year") /\ ~ret.skipped) =>
        \A name \in DOMAIN RatioInputs :
            RatioNullIffInputMissing(args, ret.gold_financial_health.ratios, name)

-----------------------------------------------------------------------------
(* C11: debt_to_equity and debt_to_assets divide total_debt whenever        *)
(* total_debt is not None, and total_liabilities only when total_debt is    *)
(* None; so does the total_debt column of gold_kpi_dashboard.               *)
ClaimedQuotient(numerator, denominator) ==
    IF IsNone(numerator) \/ IsNone(denominator) \/ denominator = Num(0) THEN NULL
    ELSE Div(numerator, denominator)

C11_TotalDebtWhenPresent ==
    (Returned("gold_year") /\ ~ret.skipped) =>
        LET debt == Metric(args, "debt") IN
        /\ ret.gold_financial_health.ratios.debt_to_equity
               = ClaimedQuotient(debt, Field(args.balance_row, "total_equity"))
        /\ ret.gold_financial_health.ratios.debt_to_assets
               = ClaimedQuotient(debt, Field(args.balance_row, "total_assets"))
        /\ ret.gold_kpi_dashboard.total_debt = debt

-----------------------------------------------------------------------------
(* C12: for revenue 100, net_income 20, current_assets 150,                 *)
(* current_liabilities 100, total_equity 80, total_assets 200, total_debt   *)
(* 40, operating_cash_flow 130 and free_cash_flow 25, create_gold_layer     *)
(* stores current_ratio 1.5, net_margin 0.20, roe 0.25, debt_to_equity 0.5, *)
(* operating_cash_flow_ratio 1.3, free_cash_flow_margin 0.25 and a status   *)
(* Excellent or Good.                                                       *)
EndToEndExample(call) ==
    /\ call.income_row # <<>> /\ call.balance_row # <<>> /\ call.cashflow_row # <<>>
    /\ Field(call.income_row, "revenue") = Num(100)
    /\ Field(call.income_row, "net_income") = Num(20)
    /\ Field(call.balance_row, "current_assets") = Num(150)
    /\ Field(call.balance_row, "current_liabilities") = Num(100)
    /\ Field(call.balance_row, "total_equity") = Num(80)
    /\ Field(call.balance_row, "total_assets") = Num(200)
    /\ Field(call.balance_row, "total_debt") = Num(40)
    /\ Field(call.cashflow_row, "operating_cash_flow") = Num(130)
    /\ Field(call.cashflow_row, "free_cash_flow") = Num(25)

C12_EndToEndExample ==
    (Returned("gold_year") /\ EndToEndExample(args)) =>
        LET ratios == ret.gold_financial_health.ratios IN
        /\ ~ret.skipped
        /\ ratios.current_ratio = Rat(3, 2)
        /\ ratios.net_margin = Rat(1, 5)
        /\ ratios.roe = Rat(1, 4)
        /\ ratios.debt_to_equity = Rat(1, 2)
        /\ ratios.operating_cash_flow_ratio = Rat(13, 10)
        /\ ratios.free_cash_flow_margin = Rat(1, 4)
        /\ ret.gold_financial_health.health_status \in {"Excellent", "Good"}
        /\ ret.gold_kpi_dashboard.health_status \in {"Excellent", "Good"}

\* The example with every other column NULL: 88 of 90 points, 97.78, Excellent.
C12_Witness ==
    /\ Returned("gold_year")
    /\ EndToEndExample(args)
    /\ IsNone(Field(args.balance_row, "cash_and_equivalents"))
    /\ IsNone(Field(args.balance_row, "total_liabilities"))
    /\ IsNone(Field(args.income_row, "gross_profit"))
    /\ ret.gold_financial_health.health_score = Rat(9778, 100)
    /\ ret.gold_financial_health.health_status = "Excellent"

-----------------------------------------------------------------------------
(* C13: the ranking analyze_all_companies prints is ordered by score         *)
(* descending, and two companies of equal score appear in ascending ticker  *)
(* order.                                                                   *)
TickersAscending ==
    <<"AAPL", "AMZN", "ASML", "AVGO", "GOOGL", "META", "MSFT", "NFLX", "NVDA", "TSLA">>

TickerRank(ticker) == CHOOSE i \in 1..Len(TickersAscending) : TickersAscending[i] = ticker

C13_RankingOrder ==
    Returned("analyze_all_companies") =>
        \A i, j \in 1..Len(ret.ranking) :
            i < j =>
                \/ Gt(ret.ranking[i].score, ret.ranking[j].score)
                \/ /\ ret.ranking[i].score = ret.ranking[j].score
                   /\ TickerRank(ret.ranking[i].ticker) < TickerRank(ret.ranking[j].ticker)

-----------------------------------------------------------------------------
(* C14: when raw rows of different labels of one statement and year map to   *)
(* the same canonical metric, the value transform_to_silver stores is the   *)
(* same for every order in which the query returns the raw rows.            *)
DistinctLabels(rows) ==
    \A i, j \in 1..Len(rows) : rows[i].metric_name = rows[j].metric_name => i = j

\* The loop body of transform_to_silver has run for frame.ticker and frame.year.
YearTransformed == op = "transform_to_silver" /\ frame # <<>> /\ frame.year # <<>>

C14_OrderIndependent ==
    (/\ YearTransformed
     /\ DistinctLabels(frame.fetched.income) /\ DistinctLabels(frame.fetched.balance)
     /\ DistinctLabels(frame.fetched.cashflow)) =>
        \A income_rows \in Fetched(frame.fetched.income),
           balance_rows \in Fetched(frame.fetched.balance),
           cashflow_rows \in Fetched(frame.fetched.cashflow) :
            transform_year(frame.ticker, frame.year, income_rows, balance_rows,
                           cashflow_rows) = frame.silver

-----------------------------------------------------------------------------
(* C15: a company-year create_gold_layer cannot score (health_score is None) *)
(* is stored with an explicit insufficient-data signal: it is not skipped,  *)
(* its status is Unknown, and its notes do not present it as a company-year *)
(* without concerns.                                                        *)
C15_InsufficientDataReported ==
    (Returned("gold_year") /\ IsNone(calculate_health_score(
                                  calculate_ratios(args.income_row, args.balance_row,
                                                   args.cashflow_row)))) =>
        /\ ~ret.skipped
        /\ ret.gold_financial_health.health_status = "Unknown"
        /\ ret.gold_financial_health.analysis_notes # NoConcerns

-----------------------------------------------------------------------------
(* C16: a NaN or infinite cell of a statement is treated as a missing value: *)
(* no ratio, growth rate or score of the gold rows of the year is NaN or    *)
(* infinite.                                                                *)
FiniteOrNone(x) == ~IsNonFinite(x)

C16_NonFiniteAsNull ==
    (op = "create_gold_layer" /\ pc \in {"ticker", "year", "done"}) =>
        /\ \A i \in 1..Len(store.gold_financial_health) :
               LET row == store.gold_financial_health[i].values
               IN  /\ \A name \in DOMAIN row.ratios : FiniteOrNone(row.ratios[name])
                   /\ FiniteOrNone(row.health_score)
        /\ \A i \in 1..Len(store.gold_kpi_dashboard) :
               LET row == store.gold_kpi_dashboard[i].values
               IN  /\ FiniteOrNone(row.revenue_growth)
                   /\ FiniteOrNone(row.profit_growth)

-----------------------------------------------------------------------------
(* C17: the two schemes classify with the same breakpoints: for every       *)
(* numeric score the tier of calculate_overall_score (EXCELENTE, BOM,       *)
(* RAZOAVEL, PREOCUPANTE, CRITICO) is, position for position, the tier      *)
(* get_health_status returns (Excellent, Good, Fair, Concerning, Poor), and *)
(* the score 0 is in the lowest tier, never Unknown.                        *)
TiersA == <<"Excellent", "Good", "Fair", "Concerning", "Poor">>

TiersB == <<"EXCELENTE", "BOM", "RAZOAVEL", "PREOCUPANTE", "CRITICO">>

Position(tiers, status) ==
    IF \E i \in 1..Len(tiers) : tiers[i] = status
    THEN CHOOSE i \in 1..Len(tiers) : tiers[i] = status
    ELSE 0

C17_SameBreakpoints ==
    /\ Returned("get_health_status") /\ ~IsNone(args.score) =>
           /\ Position(TiersA, ret) # 0
           /\ Position(TiersA, ret) = Position(TiersB, status_of(args.score))
           /\ args.score = Num(0) => ret = "Poor"
    /\ Returned("calculate_overall_score") =>
           /\ Position(TiersB, ret.health_status) # 0
           /\ Position(TiersB, ret.health_status)
                  = Position(TiersA, get_health_status(ret.overall_score))
           /\ ret.overall_score = Num(0) => ret.health_status = "CRITICO"

C17_Witness ==
    /\ Returned("calculate_overall_score")
    /\ ret.overall_score = Num(65)
    /\ ret.health_status = "BOM"
    /\ get_health_status(ret.overall_score) = "Good"

-----------------------------------------------------------------------------
(* C18: the status Unknown is stored only for a company-year with no ratio  *)
(* at all: when at least one of the 13 ratios create_gold_layer computed is *)
(* not None, the stored health_status is not Unknown.                       *)
C18_UnknownOnlyWithoutRatios ==
    Returned("gold_year") /\ ~ret.skipped =>
        ((\E name \in DOMAIN ret.gold_financial_health.ratios :
              ~IsNone(ret.gold_financial_health.ratios[name]))
             => ret.gold_financial_health.health_status # "Unknown")

-----------------------------------------------------------------------------
(* C19: every ratio-to-score mapping is monotone in the direction in which  *)
(* the ratio is good: score_metric, called as the analyzer calls it, and    *)
(* the points calculate_health_score awards for a ratio (and with them its  *)
(* result) never decrease when a higher-is-better ratio increases or when   *)
(* debt_to_equity or debt_to_assets decreases.                              *)
LowerIsBetter == {"debt_to_equity", "debt_to_assets"}

\* b is at least as good a value of the metric as a.
AtLeastAsGood(metric, a, b) == IF metric \in LowerIsBetter THEN Le(b, a) ELSE Le(a, b)

\* The points calculate_health_score adds for one ratio.
PointsFor(metric, value) ==
    LET ratios == [k \in {metric} |-> value] IN
    CASE metric = "current_ratio" -> current_ratio_points(ratios).score
      [] metric = "cash_ratio" -> cash_ratio_points(ratios).score
      [] metric = "net_margin" -> net_margin_points(ratios).score
      [] metric = "roe" -> roe_points(ratios).score
      [] metric = "debt_to_equity" -> debt_to_equity_points(ratios).score
      [] metric = "debt_to_assets" -> debt_to_assets_points(ratios).score
      [] metric = "operating_cash_flow_ratio" ->
             operating_cash_flow_ratio_points(ratios).score
      [] metric = "free_cash_flow_margin" -> free_cash_flow_margin_points(ratios).score

C19_Monotone ==
    /\ (Returned("score_metric") /\ ~IsNone(ret)
        /\ args.reverse = (args.metric_name \in LowerIsBetter)) =>
           \A better \in MetricValues :
               AtLeastAsGood(args.metric_name, args.value, better) =>
                   Le(ret, score_metric(args.metric_name, better, args.reverse))
    /\ Returned("calculate_health_score") =>
           \A metric \in TrackedRatios : ~IsNone(args.ratios[metric]) =>
               \A i \in 1..Len(RatioCandidates[metric]) :
                   LET better == Dec(RatioCandidates[metric][i]) IN
                   AtLeastAsGood(metric, args.ratios[metric], better) =>
                       /\ PointsFor(metric, args.ratios[metric]) <= PointsFor(metric, better)
                       /\ Le(ret, calculate_health_score(
                                      [args.ratios EXCEPT ![metric] = better]))

C19_Witness ==
    /\ Returned("score_metric")
    /\ args.metric_name = "debt_to_equity" /\ args.reverse
    /\ args.value = Dec(120) /\ ret = Num(50)
    /\ score_metric("debt_to_equity", Dec(100), TRUE) = Num(75)

-----------------------------------------------------------------------------
(* C20: the notes of a company-year are in category evaluation order:       *)
(* liquidity notes, then profitability, leverage, cash-flow and growth      *)
(* notes, in the note sequence of run_full_analysis and in the note string  *)
(* of generate_analysis_notes.                                              *)
CategoryRank(metric) ==
    CASE metric \in {"current_ratio", "quick_ratio", "cash_ratio"} -> 1
      [] metric \in {"gross_margin", "operating_margin", "net_margin", "roe", "roa"} -> 2
      [] metric \in {"debt_to_equity", "debt_to_assets"} -> 3
      [] metric \in {"operating_cash_flow_ratio", "free_cash_flow_margin"} -> 4
      [] metric \in {"revenue_growth", "profit_growth"} -> 5
      [] OTHER -> 0

InCategoryOrder(notes) ==
    \A i, j \in 1..Len(notes) :
        (i < j /\ CategoryRank(notes[i].metric) # 0 /\ CategoryRank(notes[j].metric) # 0)
            => CategoryRank(notes[i].metric) <= CategoryRank(notes[j].metric)

C20_NotesInCategoryOrder ==
    /\ (Returned("run_full_analysis") /\ ~IsNone(ret.score)) =>
           InCategoryOrder(ret.self.analysis_report)
    /\ (Returned("gold_year") /\ ~ret.skipped) =>
           InCategoryOrder(ret.gold_financial_health.analysis_notes)

-----------------------------------------------------------------------------
(* C21: a provider failure while a ticker is extracted aborts that ticker's *)
(* extraction only: no row of the ticker stays in a bronze table, the call  *)
(* returns an empty result, and every other ticker is still extracted: when *)
(* the run ends each ticker has a result, and the tables hold exactly the   *)
(* rows of the tickers whose extraction did not fail.                       *)
RowsOf(rows, ticker) == SelectSeq(rows, LAMBDA r : r.ticker = ticker)

\* The tickers whose call of extract_to_bronze has ended, by position.
Extracted == 1..Len(frame.returned)

\* The provider failed in the call for the company at position i.
Failed(i) ==
    /\ frame.returned[i] = {}
    /\ all_dataframes(args.provider[args.companies[i].ticker]) # {}

C21_FailureAbortsOneTicker ==
    (op = "run_bronze_extraction" /\ pc \in {"loop", "done"}) =>
        /\ \A i \in Extracted : \A t \in BronzeTables :
               RowsOf(store.committed[t], args.companies[i].ticker) =
                   IF frame.returned[i] = {} THEN <<>>
                   ELSE statement_rows(args.companies[i].ticker,
                                       args.provider[args.companies[i].ticker][t])
        /\ \A i \in Extracted :
               frame.returned[i] \in
                   {{}, all_dataframes(args.provider[args.companies[i].ticker])}
        /\ pc = "done" => Len(frame.returned) = Len(args.companies)

C21_Witness ==
    /\ Returned("run_bronze_extraction")
    /\ Failed(1) /\ ~Failed(2)
    /\ frame.returned[2] = {"income", "balance-sheet", "cash-flow"}
    /\ store.committed.bronze_income_statement # <<>>
    /\ RowsOf(store.committed.bronze_income_statement, "AAPL") = <<>>

-----------------------------------------------------------------------------
(* C22: recomputation is a full refresh: after any number of runs of        *)
(* create_gold_layer each gold table holds exactly one record for every     *)
(* (ticker, fiscal_year) processed and no other record, and a second run on *)
(* unchanged silver tables leaves the records of the first.                 *)
Processed ==
    {<<store.silver_income_statement[i].ticker,
       store.silver_income_statement[i].fiscal_year>> :
        i \in 1..Len(store.silver_income_statement)}

OnePerCompanyYear(table) ==
    /\ \A key \in Processed : Len(Matching(table, key[1], key[2])) = 1
    /\ \A i \in 1..Len(table) : <<table[i].ticker, table[i].fiscal_year>> \in Processed

C22_FullRefresh ==
    Returned("create_gold_layer") =>
        /\ OnePerCompanyYear(store.gold_financial_health)
        /\ OnePerCompanyYear(store.gold_kpi_dashboard)
        /\ \A run \in 1..Len(ret) : ret[run] = ret[1]
        /\ GoldTables(store) = ret[Len(ret)]

C22_Witness ==
    /\ Returned("create_gold_layer")
    /\ Len(ret) = MaxRuns
    /\ Len(store.gold_kpi_dashboard) = 5
    /\ ret[MaxRuns] = ret[1]

-----------------------------------------------------------------------------
(* C23: the growth create_gold_layer records for fiscal year Y of a ticker  *)
(* compares year Y, as current, with year Y-1, as previous: when year Y is  *)
(* processed the values carried as previous are the revenue and net income  *)
(* of year Y-1.                                                             *)
SilverValue(ticker, year, column) ==
    Field(Matching(store.silver_income_statement, ticker, year), column)

ComparesWithPrecedingYear(row) ==
    /\ row.values.revenue_growth =
           revenue_growth_of(row.values.revenue,
                             SilverValue(row.ticker, row.fiscal_year - 1, "revenue"))
    /\ row.values.profit_growth =
           profit_growth_of(row.values.net_income,
                            SilverValue(row.ticker, row.fiscal_year - 1, "net_income"))

C23_GrowthAgainstPrecedingYear ==
    (op = "create_gold_layer" /\ pc \in {"year", "ticker", "done"}) =>
        /\ (pc = "year" /\ frame.years # <<>>) =>
               LET ticker == args.companies[frame.index].ticker
                   year == Head(frame.years)
               IN  /\ frame.previous_revenue = SilverValue(ticker, year - 1, "revenue")
                   /\ frame.previous_net_income =
                          SilverValue(ticker, year - 1, "net_income")
        /\ \A i \in 1..Len(store.gold_kpi_dashboard) :
               ComparesWithPrecedingYear(store.gold_kpi_dashboard[i])

-----------------------------------------------------------------------------
(* C24: the carried previous revenue and net income never cross tickers:    *)
(* they are None when the first year of a ticker is processed, so that year *)
(* has no revenue_growth and no profit_growth, and the growth stored for a  *)
(* ticker is what create_gold_layer stores when the ticker is processed     *)
(* alone.                                                                   *)
RECURSIVE KpiValuesAlone(_, _, _, _)
KpiValuesAlone(ticker, years, previous_revenue, previous_net_income) ==
    IF years = <<>> THEN <<>>
    ELSE LET computed == gold_year(
                 fetchone(store.silver_income_statement, ticker, Head(years),
                          IncomeColumns),
                 fetchone(store.silver_balance_sheet, ticker, Head(years),
                          BalanceColumns),
                 fetchone(store.silver_cash_flow, ticker, Head(years), CashflowColumns),
                 previous_revenue, previous_net_income)
         IN  (IF computed.skipped THEN <<>> ELSE <<computed.gold_kpi_dashboard>>)
             \o KpiValuesAlone(ticker, Tail(years), computed.previous_revenue,
                               computed.previous_net_income)

KpiValuesOf(ticker) ==
    LET rows == SelectSeq(store.gold_kpi_dashboard, LAMBDA r : r.ticker = ticker)
    IN  [i \in 1..Len(rows) |-> rows[i].values]

C24_CarriedStatePerTicker ==
    (op = "create_gold_layer" /\ pc \in {"year", "ticker", "done"}) =>
        /\ \A i \in 1..Len(args.companies) :
               LET ticker == args.companies[i].ticker
                   years == years_of(store.silver_income_statement, ticker)
               IN  /\ (pc = "year" /\ i = frame.index /\ frame.years = years) =>
                          /\ IsNone(frame.previous_revenue)
                          /\ IsNone(frame.previous_net_income)
                   /\ i < frame.index =>
                          /\ KpiValuesOf(ticker) = KpiValuesAlone(ticker, years, NULL, NULL)
                          /\ years # <<>> =>
                                 /\ IsNone(KpiValuesOf(ticker)[1].revenue_growth)
                                 /\ IsNone(KpiValuesOf(ticker)[1].profit_growth)

C24_Witness ==
    /\ op = "create_gold_layer" /\ pc = "year"
    /\ frame.index = 2
    /\ Len(frame.years) = 1
    /\ Len(KpiValuesOf("AAPL")) = 3
    /\ Len(KpiValuesOf("MSFT")) = 1
    /\ IsNone(KpiValuesOf("MSFT")[1].revenue_growth)
    /\ ~IsNone(KpiValuesOf("MSFT")[1].revenue)

-----------------------------------------------------------------------------
(* C25: for one statement of one (ticker, fiscal_year), a raw row whose     *)
(* label is not in the mapping is dropped, a row with a null value sets     *)
(* nothing, each canonical metric holds the value of the last row, in the   *)
(* order fetched, whose label maps to it and whose value is not null, and a *)
(* record is written only when at least one canonical metric was set.       *)
Setting(METRICS, rows, key) ==
    {i \in 1..Len(rows) :
        /\ rows[i].metric_name \in Labels(METRICS)
        /\ Canonical(METRICS, rows[i].metric_name) = key
        /\ ~IsNone(rows[i].metric_value)}

Last(indices) == CHOOSE i \in indices : \A j \in indices : j <= i

Canonicals(METRICS) == {METRICS[i][2] : i \in 1..Len(METRICS)}

LastWriteWins(METRICS, rows, written) ==
    LET set == {key \in Canonicals(METRICS) : Setting(METRICS, rows, key) # {}}
    IN  /\ Len(written) <= 1
        /\ written # <<>> <=> set # {}
        /\ written # <<>> =>
               /\ DOMAIN written[1] = {"ticker", "fiscal_year"} \cup set
               /\ \A key \in set :
                      written[1][key] =
                          rows[Last(Setting(METRICS, rows, key))].metric_value

\* The records of a silver table for the ticker and year transformed last.
Written(table) ==
    SelectSeq(store[table],
              LAMBDA r : r.ticker = frame.ticker /\ r.fiscal_year = int(frame.year))

C25_LastWriteWins ==
    YearTransformed =>
        /\ LastWriteWins(INCOME_METRICS, frame.fetched.income,
                         Written("silver_income_statement"))
        /\ LastWriteWins(BALANCE_METRICS, frame.fetched.balance,
                         Written("silver_balance_sheet"))
        /\ LastWriteWins(CASHFLOW_METRICS, frame.fetched.cashflow,
                         Written("silver_cash_flow"))

C25_Witness ==
    /\ YearTransformed
    /\ frame.fetched.income =
           <<[metric_name |-> "Total Revenue", metric_value |-> Num(90)],
             [metric_name |-> "Net Sales", metric_value |-> Num(100)],
             [metric_name |-> "Total Revenue", metric_value |-> NULL]>>
    /\ frame.silver.silver_income_statement[1].revenue = Num(100)
    /\ frame.silver.silver_balance_sheet = <<>>
    /\ Written("silver_income_statement") = frame.silver.silver_income_statement

-----------------------------------------------------------------------------
(* C26: the threshold notes of generate_analysis_notes fire for every       *)
(* present ratio that crosses its threshold: current_ratio < 1.0 gives the  *)
(* low-liquidity note, debt_to_equity > 2.0 the high-leverage note,         *)
(* net_margin < 0 the not-profitable note, roe < 0.05 the low-ROE note and  *)
(* free_cash_flow_margin < 0 the negative-free-cash-flow note.              *)
Has(notes, note) == \E i \in 1..Len(notes) : notes[i] = note

Crosses(ratios, key, crossed(_), note, notes) ==
    (~IsNone(Get(ratios, key)) /\ crossed(Get(ratios, key))) => Has(notes, note)

C26_ThresholdNotesFire ==
    (Returned("gold_year") /\ ~ret.skipped) =>
        LET ratios == ret.gold_financial_health.ratios
            notes == ret.gold_financial_health.analysis_notes
        IN  /\ Crosses(ratios, "current_ratio", LAMBDA v : Lt(v, Num(1)),
                       Note("current_ratio", "low"), notes)
            /\ Crosses(ratios, "debt_to_equity", LAMBDA v : Gt(v, Num(2)),
                       Note("debt_to_equity", "high"), notes)
            /\ Crosses(ratios, "net_margin", LAMBDA v : Lt(v, Num(0)),
                       Note("net_margin", "not_profitable"), notes)
            /\ Crosses(ratios, "roe", LAMBDA v : Lt(v, Dec(5)),
                       Note("roe", "low"), notes)
            /\ Crosses(ratios, "free_cash_flow_margin", LAMBDA v : Lt(v, Num(0)),
                       Note("free_cash_flow_margin", "negative"), notes)

-----------------------------------------------------------------------------
(* C27: note generation is additive: the rule of a ratio appends no note or *)
(* one, and the note of a ratio depends on the value of that ratio only:    *)
(* giving any other ratio any other value leaves it as it is.  This holds   *)
(* for generate_analysis_notes and for the analyze_* methods.               *)
NotesAbout(notes, key) == SelectSeq(notes, LAMBDA n : n.metric = key)

With(ratios, key, value) == [ratios EXCEPT ![key] = value]

Additive(keys, notes, changed(_, _)) ==
    /\ \A key \in keys : Len(NotesAbout(notes, key)) <= 1
    /\ \A other \in keys, value \in NoteValues \cup {NULL} :
           LET changed_notes == changed(other, value)
           IN  \A key \in keys \ {other} :
                   NotesAbout(changed_notes, key) = NotesAbout(notes, key)

C27_NotesAdditive ==
    /\ Returned("generate_analysis_notes") =>
           Additive(GoldNoteRatios, ret,
                    LAMBDA other, value :
                        generate_analysis_notes(With(args.ratios, other, value), NULL))
    /\ Returned("all_notes") =>
           Additive(AnalyzerNoteMetrics, ret,
                    LAMBDA other, value :
                        all_notes_of(With(args.metrics, other, value)))

C27_Witness ==
    /\ Returned("generate_analysis_notes")
    /\ args.ratios.current_ratio = Dec(-10)
    /\ args.ratios.roe = Dec(-10)
    /\ ret = <<Note("current_ratio", "low"), Note("roe", "low")>>

-----------------------------------------------------------------------------
(* C28: after calculate_overall_score, is_healthy() is true exactly when    *)
(* health_status is EXCELENTE, BOM or RAZOAVEL, that is when overall_score  *)
(* is at least 50; before a score has been computed is_healthy() is false.  *)
HealthyStatuses == {"EXCELENTE", "BOM", "RAZOAVEL"}

C28_HealthyIffUpperTiers ==
    /\ Returned("calculate_overall_score") =>
           /\ is_healthy(ret) <=> ret.health_status \in HealthyStatuses
           /\ is_healthy(ret) <=> Ge(ret.overall_score, Num(50))
    /\ (Returned("run_full_analysis") /\ ~IsNone(ret.score)) =>
           (is_healthy(ret.self) <=> ret.status \in HealthyStatuses)
    /\ (op = "calculate_overall_score" /\ pc = "call") => ~is_healthy(args.self)
    /\ (Returned("run_full_analysis") /\ IsNone(ret.score)) => ~is_healthy(ret.self)

C28_Witness ==
    /\ Returned("calculate_overall_score")
    /\ ~is_healthy(args.self)
    /\ is_healthy(ret)
    /\ ret.health_status = "RAZOAVEL"

-----------------------------------------------------------------------------
(* C29: every connection a FinancialHealthAnalyzer opened is closed before  *)
(* the function that created the analyzer returns, on every return path of  *)
(* analyze_all_companies and of analyze_single_company, whether the ticker  *)
(* could be scored or not.                                                  *)
C29_ConnectionsClosed ==
    (op \in {"analyze_all_companies", "analyze_single_company"} /\ pc = "done") =>
        store.open = {}

-----------------------------------------------------------------------------
(* C30: the two growth computations agree: for every ticker, the            *)
(* revenue_growth and profit_growth load_data derives for the latest fiscal *)
(* year of the ticker are those create_gold_layer stored in                 *)
(* gold_kpi_dashboard for that ticker and year: both null, or both the same *)
(* number.                                                                  *)
C30_GrowthComputationsAgree ==
    (op = "create_gold_layer" /\ pc = "done") =>
        \A i \in 1..Len(args.companies) :
            LET ticker == args.companies[i].ticker
                stored == latest_rows(store.gold_kpi_dashboard, ticker, 1)
                metrics == load_data(
                    fetched_health_rows(store.gold_financial_health, ticker),
                    fetched_kpi_rows(store.gold_kpi_dashboard, ticker))
            IN  stored # <<>> =>
                    /\ Get(metrics, "revenue_growth") = stored[1].values.revenue_growth
                    /\ Get(metrics, "profit_growth") = stored[1].values.profit_growth

====
